---- MODULE Spec2Model ----
(***************************************************************************)
(* A model of the fractal step sequencer: the scale quantizer, the         *)
(* sequence transformations, the fractal tree builder, the path flattener  *)
(* (src/audio/FractalTree.ts), the step scheduler                          *)
(* (src/audio/SequencerEngine.ts) and the edit handlers that keep the      *)
(* cached active sequence (App).                                           *)
(*                                                                         *)
(* Pitches are fixed-point numbers: a pitch value v stands for v/PitchUnit *)
(* semitones, so that the fractional jitter range 0.3 of the tree builder  *)
(* is representable.  Math.random() is a nondeterministic choice.          *)
(***************************************************************************)
EXTENDS Integers, Sequences, FiniteSets, TLC

VARIABLES
    qPitch,      \* quantizer input, in whole semitones
    qScale,      \* quantizer scale
    qOut,        \* results of successive quantizePitch calls, each fed the previous result
    qUp,         \* result of quantizePitch on the input raised by an octave (<<>> before the call)
    tSeq,        \* the sequence handed to a transformation
    tOp,         \* the transformation applied to it ("none" before the first call)
    tOut,        \* results of successive calls, each fed the previous result
    channel,     \* channels[0]: its current pattern, generatedTree and activeSequence
    fOut,        \* results of buildPlaybackSequence calls made on the channel as it is
    iSeq,        \* the sequence handed to getStepIndexAtTick
    iOut,        \* the indices it returned for the counters 0, 1, 2, ...
    engine,      \* EngineState: isPlaying, ratchetsEnabled, bpm
    channelState,\* the scheduler's tick state
    transport,   \* Tone.Transport: the repeating callbacks scheduled, the time of the next one
    notes,       \* the triggers handed to the synth, in order
    tickReads,   \* the sequences the ticks have read since the last regeneration event
    tickFlattens,\* how many times a tick has called buildPlaybackSequence
    edits,       \* how many edit handlers have run
    ticks,       \* how many tick callbacks have run
    lastEdit,    \* whether the last editing handler rebuilt the tree, and re-flattened
    stoppedAt,   \* the ratchet count the last call of stop() found, 0 before any
    heap,        \* the step objects and the steps arrays allocated, each known by its index
    hPattern,    \* a pattern whose trunk lives on the heap
    hMade,       \* the sequences made on the heap, each with its steps as they were then
    hTree        \* the tree built from hPattern on the heap (<<>> before the call)

qvars == <<qPitch, qScale, qOut, qUp>>
tvars == <<tSeq, tOp, tOut>>
fvars == <<channel, fOut>>
ivars == <<iSeq, iOut>>
evars == <<engine, channelState, transport, notes, tickReads, tickFlattens, edits, ticks,
           lastEdit, stoppedAt>>

hvars == <<heap, hPattern, hMade, hTree>>

vars == <<qvars, tvars, fvars, ivars, evars, hvars>>

\* What the actions of one component leave alone.
QOthers == <<tvars, fvars, ivars, evars, hvars>>
TOthers == <<qvars, fvars, ivars, evars, hvars>>
FOthers == <<qvars, tvars, ivars, evars, hvars>>
IOthers == <<qvars, tvars, fvars, evars, hvars>>
AOthers == <<qvars, tvars, fOut, ivars, hvars>>
HOthers == <<qvars, tvars, fvars, ivars, evars>>

----------------------------------------------------------------------------
(* Bounds of the model *)

MaxQPitch == 30        \* quantizer inputs range over -MaxQPitch..MaxQPitch semitones
MaxQCalls == 2         \* quantizePitch is chained at most this many times
TCap == 3              \* steps.length of the sequences handed to the transformations
MaxTPitch == 1         \* their pitches range over -MaxTPitch..MaxTPitch semitones
MaxTCalls == 2         \* a transformation is chained at most this many times
Cap == 3               \* steps.length of the trunk (32 in the program)
MaxBranches == 2       \* branchesCount ranges over 0..MaxBranches
PathSteps == 2         \* pathValue ranges over k / PathSteps, k in 0..PathSteps
RandLen == 2           \* Math.random() results of one handler repeat with this period
MaxILen == 4           \* getStepIndexAtTick is given sequences of length 1..MaxILen
MaxCounter == 8        \* and the counters 0..MaxCounter - 1
MaxEdits == 2          \* edit handlers run at most this many times
MaxBase == 4           \* the scheduler left to run is followed up to this base step
MaxTicks == 2          \* the tick callback runs at most this many times
HCap == 2              \* steps.length of the trunk kept on the heap
MaxHCalls == 2         \* a transformation is called on heap sequences at most this many times

----------------------------------------------------------------------------
(* Numbers *)

PitchUnit == 10        \* pitch values per semitone (0.3 semitone = 3)
Infinity == 1000000000 \* stands for the JavaScript Infinity: above every pitch and every time

RandScale == 100       \* a Math.random() result r stands for r / RandScale
TimeUnit == 1000000    \* time values per second
PathEpsilon == 10000   \* 0.0001 = 1 / PathEpsilon

Abs(x) == IF x < 0 THEN -x ELSE x

RECURSIVE Pow2(_)
Pow2(n) == IF n <= 0 THEN 1 ELSE 2 * Pow2(n - 1)

\* The values Math.random() takes in the model: 0 and 0.9.
RandomValues == {0, 90}

\* The results of the Math.random() calls of one handler: call number i returns
\* rnd[i mod RandLen].
RandomStreams == [1..RandLen -> RandomValues]

Rand(rnd, i) == rnd[(i % Len(rnd)) + 1]

\* Math.floor(Math.random() * (num / den)) for the random result r.
RandFloor(r, num, den) == (r * num) \div (RandScale * den)

\* JavaScript a % b: the result has the sign of the dividend.
JsRem(a, b) == IF a >= 0 THEN a % b ELSE -((-a) % b)

\* Math.floor(num / den), den > 0.
MathFloor(num, den) == num \div den

\* Math.round(num / den), den > 0: floor(x + 0.5).
MathRound(num, den) == (2 * num + den) \div (2 * den)

----------------------------------------------------------------------------
(* Scale quantizer *)

ScaleNames == {"chromatic", "major", "minor", "major-pentatonic", "minor-pentatonic",
               "harmonic-minor", "whole-tone", "unquantized"}

SCALES ==
    [s \in ScaleNames |->
        CASE s = "chromatic" -> <<0, 1, 2, 3, 4, 5, 6, 7, 8, 9, 10, 11>>
          [] s = "major" -> <<0, 2, 4, 5, 7, 9, 11>>
          [] s = "minor" -> <<0, 2, 3, 5, 7, 8, 10>>
          [] s = "major-pentatonic" -> <<0, 2, 4, 7, 9>>
          [] s = "minor-pentatonic" -> <<0, 3, 5, 7, 10>>
          [] s = "harmonic-minor" -> <<0, 2, 3, 5, 7, 8, 11>>
          [] s = "whole-tone" -> <<0, 2, 4, 6, 8, 10>>
          [] s = "unquantized" -> <<>>]

\* The loop "for (const interval of intervals)": the state <<minDiff, nearest>> after
\* the intervals from index i on have been visited.
RECURSIVE NearestInterval(_, _, _, _, _)
NearestInterval(intervals, normalizedNote, i, minDiff, nearest) ==
    IF i > Len(intervals) THEN <<minDiff, nearest>>
    ELSE LET diff == Abs(normalizedNote - intervals[i])
         IN  IF diff < minDiff
             THEN NearestInterval(intervals, normalizedNote, i + 1, diff, intervals[i])
             ELSE NearestInterval(intervals, normalizedNote, i + 1, minDiff, nearest)

\* The mutant: the negative remainder is not normalised into [0, 12).
QuantizePitchNoNormalize(pitchSemitones, scale) ==
    IF scale = "unquantized" THEN pitchSemitones
    ELSE LET intervals == SCALES[scale]
             octave == MathFloor(pitchSemitones, 12 * PitchUnit)
             note == MathRound(JsRem(pitchSemitones, 12 * PitchUnit), PitchUnit)
             found == NearestInterval(intervals, note, 1, Infinity, intervals[1])
         IN  (octave * 12 + found[2]) * PitchUnit

\* The mutant: the nearest search prefers the later interval on a tie (<= for <).
QuantizePitchLastWins(pitchSemitones, scale) ==
    IF scale = "unquantized" THEN pitchSemitones
    ELSE LET intervals == SCALES[scale]
             octave == MathFloor(pitchSemitones, 12 * PitchUnit)
             note == MathRound(JsRem(pitchSemitones, 12 * PitchUnit), PitchUnit)
             normalizedNote == (JsRem(note, 12) + 12) % 12
             best == CHOOSE k \in 1..Len(intervals) :
                        \A j \in 1..Len(intervals) :
                            \/ Abs(normalizedNote - intervals[k]) < Abs(normalizedNote - intervals[j])
                            \/ /\ Abs(normalizedNote - intervals[k]) = Abs(normalizedNote - intervals[j])
                               /\ j <= k
         IN  (octave * 12 + intervals[best]) * PitchUnit

\* The mutant: the result is the pitch lowered by the smallest difference, as if the
\* nearest interval were always below the note.
QuantizePitchSnapDown(pitchSemitones, scale) ==
    IF scale = "unquantized" THEN pitchSemitones
    ELSE LET intervals == SCALES[scale]
             note == MathRound(JsRem(pitchSemitones, 12 * PitchUnit), PitchUnit)
             normalizedNote == (JsRem(note, 12) + 12) % 12
             found == NearestInterval(intervals, normalizedNote, 1, Infinity, intervals[1])
         IN  pitchSemitones - found[1] * PitchUnit

quantizePitch(pitchSemitones, scale) ==
    IF scale = "unquantized" THEN pitchSemitones
    ELSE LET intervals == SCALES[scale]
         IN  IF Len(intervals) = 0 THEN pitchSemitones
             ELSE LET octave == MathFloor(pitchSemitones, 12 * PitchUnit)
                      note == MathRound(JsRem(pitchSemitones, 12 * PitchUnit), PitchUnit)
                      normalizedNote == (JsRem(note, 12) + 12) % 12
                      found == NearestInterval(intervals, normalizedNote, 1,
                                               Infinity, intervals[1])
                      minDiff == found[1]
                      nearest == found[2]
                      diffUpper == Abs((normalizedNote - 12) - intervals[1])
                      diffLower == Abs((normalizedNote + 12) - intervals[Len(intervals)])
                  IN  IF diffUpper < minDiff
                      THEN ((octave + 1) * 12 + intervals[1]) * PitchUnit
                      ELSE IF diffLower < minDiff
                      THEN ((octave - 1) * 12 + intervals[Len(intervals)]) * PitchUnit
                      ELSE (octave * 12 + nearest) * PitchUnit

----------------------------------------------------------------------------
(* Steps and sequences *)

GateLengthKinds == {"trigger", "p10", "p25", "p50", "p75", "p90", "tied"}
PlaybackOrders == {"forward", "backward", "pendulum", "random"}

\* A step as createDefaultStep makes it, with the given pitch and gate.
MakeStep(pitch, gateOn) ==
    [pitch |-> pitch, gateOn |-> gateOn, ratchets |-> 1, slew |-> 0, gateLength |-> "p50"]

MakeSequence(steps, length, scale, playbackOrder) ==
    [steps |-> steps, length |-> length, scale |-> scale, playbackOrder |-> playbackOrder]

Min(a, b) == IF a <= b THEN a ELSE b

\* Array.prototype.slice(0, end).
Slice(arr, end) == SubSeq(arr, 1, Min(end, Len(arr)))

\* Array.prototype.reverse.
Reverse(arr) == [i \in 1..Len(arr) |-> arr[Len(arr) + 1 - i]]

----------------------------------------------------------------------------
(* Sequence transformer *)

\* A new sequence object with a new array of new step objects.
cloneSequence(seq) ==
    [seq EXCEPT !.steps = [i \in 1..Len(seq.steps) |-> seq.steps[i]]]

transposeSequence(seq, semitones) ==
    LET newSeq == cloneSequence(seq)
    IN  [newSeq EXCEPT !.steps =
            [i \in 1..Len(newSeq.steps) |->
                [newSeq.steps[i] EXCEPT !.pitch = @ + semitones * PitchUnit]]]

\* The first forEach of invertSequence: <<minPitch, maxPitch>> after the steps from
\* index i on have been visited.
RECURSIVE PitchRange(_, _, _, _)
PitchRange(steps, i, minPitch, maxPitch) ==
    IF i > Len(steps) THEN <<minPitch, maxPitch>>
    ELSE PitchRange(steps, i + 1,
                    IF steps[i].pitch < minPitch THEN steps[i].pitch ELSE minPitch,
                    IF steps[i].pitch > maxPitch THEN steps[i].pitch ELSE maxPitch)

\* The mutant: the mirror forgets the minimum (maxPitch - pitch).
InvertSequenceNoMin(seq) ==
    LET newSeq == cloneSequence(seq)
        range == PitchRange(newSeq.steps, 1, Infinity, -Infinity)
    IN  [newSeq EXCEPT !.steps =
            [i \in 1..Len(newSeq.steps) |->
                [newSeq.steps[i] EXCEPT !.pitch = range[2] - @]]]

invertSequence(seq) ==
    LET newSeq == cloneSequence(seq)
    IN  IF Len(newSeq.steps) = 0 THEN newSeq
        ELSE LET range == PitchRange(newSeq.steps, 1, Infinity, -Infinity)
                 minPitch == range[1]
                 maxPitch == range[2]
             IN  [newSeq EXCEPT !.steps =
                     [i \in 1..Len(newSeq.steps) |->
                         [newSeq.steps[i] EXCEPT !.pitch = maxPitch - (@ - minPitch)]]]

\* The mutant: the whole steps array is reversed, not only the active prefix.
ReverseSequenceWhole(seq) ==
    LET newSeq == cloneSequence(seq)
    IN  [newSeq EXCEPT !.steps = Reverse(newSeq.steps)]

\* The sequences of the model have length <= steps.length, so every activeSteps[i]
\* the loop reads exists.
reverseSequence(seq) ==
    LET newSeq == cloneSequence(seq)
        activeSteps == Reverse(Slice(newSeq.steps, newSeq.length))
    IN  [newSeq EXCEPT !.steps =
            [i \in 1..Len(newSeq.steps) |->
                IF i <= newSeq.length THEN activeSteps[i] ELSE newSeq.steps[i]]]

\* floor(random * (range * 2 + 1)) - range for every step with its gate on; range in
\* pitch units, the draw of step i is number base + i of the handler.
mutateSequence(seq, range, rnd, base) ==
    LET newSeq == cloneSequence(seq)
    IN  IF range = 0 THEN newSeq
        ELSE [newSeq EXCEPT !.steps =
                 [i \in 1..Len(newSeq.steps) |->
                     IF newSeq.steps[i].gateOn
                     THEN LET offset == RandFloor(Rand(rnd, base + i),
                                                  range * 2 + PitchUnit, PitchUnit) * PitchUnit
                                        - range
                          IN  [newSeq.steps[i] EXCEPT !.pitch = @ + offset]
                     ELSE newSeq.steps[i]]]

----------------------------------------------------------------------------
(* Fractal tree builder *)

ModificationKinds == {"transpose", "invert", "reverse", "mutate"}
BranchPlaybackOrders == {"forward", "reverse", "pendulum", "random"}

MakeConfig(left, right, leftParam, rightParam) ==
    [left |-> left, right |-> right, leftParam |-> leftParam, rightParam |-> rightParam]

\* The branchConfig of createDefaultPattern.
DefaultBranchConfig ==
    << MakeConfig("transpose", "transpose", 3, -3),
       MakeConfig("invert", "transpose", 0, 7),
       MakeConfig("mutate", "invert", 3, 0) >>

\* The recipe used when pattern.branchConfig has no entry for the depth.
FallbackConfig == MakeConfig("transpose", "transpose", 7, -5)

\* param || 0.3, in pitch units.
ParamOrDefault(param) == IF param = 0 THEN (3 * PitchUnit) \div 10 ELSE param * PitchUnit

\* A node without children; left and right hold no node (<<>>) or one (<<node>>).
MakeNode(sequence, depth, modificationFromParent) ==
    [sequence |-> sequence, depth |-> depth,
     modificationFromParent |-> modificationFromParent, left |-> <<>>, right |-> <<>>]

\* The sequence of a child: kind applied to the parent's sequence.
ApplyModification(kind, seq, param, rnd, base) ==
    IF kind = "transpose" THEN transposeSequence(seq, param)
    ELSE IF kind = "invert" THEN invertSequence(seq)
    ELSE IF kind = "reverse" THEN reverseSequence(seq)
    ELSE mutateSequence(seq, ParamOrDefault(param), rnd, base)

\* The mutant: the recursion stops one level early (depth >= maxDepth - 1).
RECURSIVE BuildChildrenStopEarly(_, _, _, _, _)
BuildChildrenStopEarly(node, id, pattern, maxDepth, rnd) ==
    IF node.depth >= maxDepth - 1 THEN node
    ELSE LET d == node.depth + 1
             config == IF d <= Len(pattern.branchConfig) THEN pattern.branchConfig[d]
                       ELSE FallbackConfig
             leftSeq == ApplyModification(config.left, node.sequence, config.leftParam,
                                          rnd, 2 * id)
             rightSeq == ApplyModification(config.right, node.sequence, config.rightParam,
                                           rnd, 2 * id + 1)
         IN  [node EXCEPT
                 !.left = <<BuildChildrenStopEarly(MakeNode(leftSeq, d, config.left),
                                                  2 * id, pattern, maxDepth, rnd)>>,
                 !.right = <<BuildChildrenStopEarly(MakeNode(rightSeq, d, config.right),
                                                   2 * id + 1, pattern, maxDepth, rnd)>>]

\* buildChildren(node): the node with its subtree. id numbers the nodes (root 1,
\* children 2 id and 2 id + 1) and offsets the random draws of a mutated child.
RECURSIVE buildChildren(_, _, _, _, _)
buildChildren(node, id, pattern, maxDepth, rnd) ==
    IF node.depth >= maxDepth THEN node
    ELSE LET d == node.depth + 1
             config == IF d <= Len(pattern.branchConfig) THEN pattern.branchConfig[d]
                       ELSE FallbackConfig
             leftSeq == ApplyModification(config.left, node.sequence, config.leftParam,
                                          rnd, 2 * id)
             rightSeq == ApplyModification(config.right, node.sequence, config.rightParam,
                                           rnd, 2 * id + 1)
         IN  [node EXCEPT
                 !.left = <<buildChildren(MakeNode(leftSeq, d, config.left),
                                         2 * id, pattern, maxDepth, rnd)>>,
                 !.right = <<buildChildren(MakeNode(rightSeq, d, config.right),
                                          2 * id + 1, pattern, maxDepth, rnd)>>]

generateTreeForChannel(ch, rnd) ==
    LET pattern == ch.pattern
        trunk == pattern.trunk
        maxDepth == pattern.branchesCount
        root == MakeNode(trunk, 0, "null")
    IN  IF maxDepth = 0 THEN [root |-> root, maxDepth |-> maxDepth]
        ELSE [root |-> buildChildren(root, 1, pattern, maxDepth, rnd), maxDepth |-> maxDepth]

----------------------------------------------------------------------------
(* Path flattener *)

getEffectivePathValue(pattern) == pattern.pathValue

\* Number.prototype.toString(2) of n >= 0, most significant bit first.
RECURSIVE ToBinary(_)
ToBinary(n) == IF n < 2 THEN <<n>> ELSE Append(ToBinary(n \div 2), n % 2)

\* String.prototype.padStart(n, '0').
RECURSIVE PadStart(_, _)
PadStart(bits, n) == IF Len(bits) >= n THEN bits ELSE PadStart(<<0>> \o bits, n)

\* The mutant: bit i is read from the least significant end of pathBits.
RECURSIVE WalkPathLowBitFirst(_, _, _, _)
WalkPathLowBitFirst(currentNode, pathBits, i, branchesCount) ==
    IF i >= branchesCount THEN <<>>
    ELSE IF currentNode = <<>> THEN <<>>
    ELSE LET next == IF pathBits[Len(pathBits) - i] = 0 THEN currentNode[1].left
                     ELSE currentNode[1].right
         IN  (IF next # <<>> THEN next ELSE <<>>)
             \o WalkPathLowBitFirst(next, pathBits, i + 1, branchesCount)

\* The loop that walks the tree along pathBits: the nodes pushed from iteration i on
\* (i counts from 0), currentNode being <<>> (undefined) or <<node>>.
RECURSIVE WalkPath(_, _, _, _)
WalkPath(currentNode, pathBits, i, branchesCount) ==
    IF i >= branchesCount THEN <<>>
    ELSE IF currentNode = <<>> THEN <<>>
    ELSE LET next == IF pathBits[i + 1] = 0 THEN currentNode[1].left
                     ELSE currentNode[1].right
         IN  (IF next # <<>> THEN next ELSE <<>>)
             \o WalkPath(next, pathBits, i + 1, branchesCount)

\* The loop "for (let i = arr.length - 2; i > 0; i--) out.push(arr[i])" (i counts
\* from 0): what it pushes from index i down.
RECURSIVE PendulumTail(_, _)
PendulumTail(arr, i) ==
    IF i <= 0 THEN <<>> ELSE <<arr[i + 1]>> \o PendulumTail(arr, i - 1)

\* The shuffle loop "for (let i = arr.length - 1; i > 0; i--)" from index i down
\* (i counts from 0): arr[i] and arr[floor(random * (i + 1))] are swapped.
RECURSIVE Shuffle(_, _, _, _)
Shuffle(arr, i, rnd, base) ==
    IF i <= 0 THEN arr
    ELSE LET j == RandFloor(Rand(rnd, base + i), i + 1, 1)
             swapped == [arr EXCEPT ![i + 1] = arr[j + 1], ![j + 1] = arr[i + 1]]
         IN  Shuffle(swapped, i - 1, rnd, base)

\* The mutant: the pendulum comes back over the last node too (i starts at length - 1).
OrderNodesRepeatEnd(pathNodes, branchOrder, rnd) ==
    IF branchOrder = "forward" THEN pathNodes
    ELSE IF branchOrder = "reverse" THEN Reverse(pathNodes)
    ELSE IF branchOrder = "pendulum"
    THEN pathNodes \o PendulumTail(pathNodes, Len(pathNodes) - 1)
    ELSE IF branchOrder = "random" THEN Shuffle(pathNodes, Len(pathNodes) - 1, rnd, 0)
    ELSE <<>>

\* pathNodes reordered by branchPlaybackOrder.
OrderNodes(pathNodes, branchOrder, rnd) ==
    IF branchOrder = "forward" THEN pathNodes
    ELSE IF branchOrder = "reverse" THEN Reverse(pathNodes)
    ELSE IF branchOrder = "pendulum"
    THEN pathNodes \o PendulumTail(pathNodes, Len(pathNodes) - 2)
    ELSE IF branchOrder = "random" THEN Shuffle(pathNodes, Len(pathNodes) - 1, rnd, 0)
    ELSE <<>>

\* The mutant: the forward step order shuffles as the random one does.
NodeStepsShuffled(node, seqOrder, rnd, base) ==
    LET tagged == [idx \in 1..Len(Slice(node.sequence.steps, node.sequence.length)) |->
                      [pitch |-> node.sequence.steps[idx].pitch,
                       gateOn |-> node.sequence.steps[idx].gateOn,
                       ratchets |-> node.sequence.steps[idx].ratchets,
                       slew |-> node.sequence.steps[idx].slew,
                       gateLength |-> node.sequence.steps[idx].gateLength,
                       originalIndex |-> idx - 1]]
        steps == Shuffle(tagged, Len(tagged) - 1, rnd, base)
    IN  [i \in 1..Len(steps) |->
            [pitch |-> steps[i].pitch, gateOn |-> steps[i].gateOn,
             ratchets |-> steps[i].ratchets, slew |-> steps[i].slew,
             gateLength |-> steps[i].gateLength,
             originalIndex |-> steps[i].originalIndex, depth |-> node.depth]]

\* The mutant: the pendulum step order is the forward one (nothing appended).
NodeStepsNoPendulum(node, seqOrder, rnd, base) ==
    LET tagged == [idx \in 1..Len(Slice(node.sequence.steps, node.sequence.length)) |->
                      [pitch |-> node.sequence.steps[idx].pitch,
                       gateOn |-> node.sequence.steps[idx].gateOn,
                       ratchets |-> node.sequence.steps[idx].ratchets,
                       slew |-> node.sequence.steps[idx].slew,
                       gateLength |-> node.sequence.steps[idx].gateLength,
                       originalIndex |-> idx - 1]]
        steps == IF seqOrder = "backward" THEN Reverse(tagged)
                 ELSE IF seqOrder = "random"
                 THEN Shuffle(tagged, Len(tagged) - 1, rnd, base)
                 ELSE tagged
    IN  [i \in 1..Len(steps) |->
            [pitch |-> steps[i].pitch, gateOn |-> steps[i].gateOn,
             ratchets |-> steps[i].ratchets, slew |-> steps[i].slew,
             gateLength |-> steps[i].gateLength,
             originalIndex |-> steps[i].originalIndex, depth |-> node.depth]]

\* The mutant: every node's steps are ordered by the node's own playbackOrder.
NodeStepsOwnOrder(node, seqOrder, rnd, base) ==
    LET tagged == [idx \in 1..Len(Slice(node.sequence.steps, node.sequence.length)) |->
                      [pitch |-> node.sequence.steps[idx].pitch,
                       gateOn |-> node.sequence.steps[idx].gateOn,
                       ratchets |-> node.sequence.steps[idx].ratchets,
                       slew |-> node.sequence.steps[idx].slew,
                       gateLength |-> node.sequence.steps[idx].gateLength,
                       originalIndex |-> idx - 1]]
        steps == IF node.sequence.playbackOrder = "backward" THEN Reverse(tagged)
                 ELSE IF node.sequence.playbackOrder = "pendulum"
                 THEN tagged \o PendulumTail(tagged, Len(tagged) - 2)
                 ELSE IF node.sequence.playbackOrder = "random"
                 THEN Shuffle(tagged, Len(tagged) - 1, rnd, base)
                 ELSE tagged
    IN  [i \in 1..Len(steps) |->
            [pitch |-> steps[i].pitch, gateOn |-> steps[i].gateOn,
             ratchets |-> steps[i].ratchets, slew |-> steps[i].slew,
             gateLength |-> steps[i].gateLength,
             originalIndex |-> steps[i].originalIndex, depth |-> node.depth]]

\* The body of orderedNodes.forEach: the steps one node contributes. The active
\* prefix is copied and tagged with originalIndex (counted from 0), reordered by the
\* trunk's playbackOrder, then copied again and tagged with the node's depth.
NodeSteps(node, seqOrder, rnd, base) ==
    LET tagged == [idx \in 1..Len(Slice(node.sequence.steps, node.sequence.length)) |->
                      [pitch |-> node.sequence.steps[idx].pitch,
                       gateOn |-> node.sequence.steps[idx].gateOn,
                       ratchets |-> node.sequence.steps[idx].ratchets,
                       slew |-> node.sequence.steps[idx].slew,
                       gateLength |-> node.sequence.steps[idx].gateLength,
                       originalIndex |-> idx - 1]]
        steps == IF seqOrder = "backward" THEN Reverse(tagged)
                 ELSE IF seqOrder = "pendulum"
                 THEN tagged \o PendulumTail(tagged, Len(tagged) - 2)
                 ELSE IF seqOrder = "random"
                 THEN Shuffle(tagged, Len(tagged) - 1, rnd, base)
                 ELSE tagged
    IN  [i \in 1..Len(steps) |->
            [pitch |-> steps[i].pitch, gateOn |-> steps[i].gateOn,
             ratchets |-> steps[i].ratchets, slew |-> steps[i].slew,
             gateLength |-> steps[i].gateLength,
             originalIndex |-> steps[i].originalIndex, depth |-> node.depth]]

\* collectedSteps after orderedNodes.forEach, from node number k on; the shuffle of
\* node number k draws after those of the nodes before it.
RECURSIVE CollectSteps(_, _, _, _)
CollectSteps(orderedNodes, k, seqOrder, rnd) ==
    IF k > Len(orderedNodes) THEN <<>>
    ELSE NodeSteps(orderedNodes[k], seqOrder, rnd, k * Cap)
         \o CollectSteps(orderedNodes, k + 1, seqOrder, rnd)

\* Math.floor(effectivePathValue * (maxPaths - 0.0001))
PathIndex(pattern) ==
    LET maxPaths == Pow2(pattern.branchesCount)
        effectivePathValue == getEffectivePathValue(pattern)
    IN  MathFloor(effectivePathValue.num * (maxPaths * PathEpsilon - 1),
                  effectivePathValue.den * PathEpsilon)

\* pathNodes of buildPlaybackSequence, for a channel that has its tree.
PathNodes(ch) ==
    LET branchesCount == ch.pattern.branchesCount
        pathBits == PadStart(ToBinary(PathIndex(ch.pattern)), branchesCount)
        root == ch.generatedTree[1].root
    IN  <<root>> \o WalkPath(<<root>>, pathBits, 0, branchesCount)

buildPlaybackSequence(ch, rnd) ==
    LET pattern == ch.pattern
    IN  IF ch.generatedTree = <<>> THEN pattern.trunk
        ELSE LET pathNodes == PathNodes(ch)
                 orderedNodes == OrderNodes(pathNodes, pattern.branchPlaybackOrder, rnd)
                 seqOrder == pattern.trunk.playbackOrder
                 collectedSteps == CollectSteps(orderedNodes, 1, seqOrder, rnd)
             IN  MakeSequence(collectedSteps, Len(collectedSteps), pattern.trunk.scale,
                              "forward")

----------------------------------------------------------------------------
(* The transformations on bounded inputs *)

TSteps == [pitch : {p * PitchUnit : p \in (-MaxTPitch)..MaxTPitch}, gateOn : BOOLEAN,
           ratchets : {1}, slew : {0}, gateLength : {"p50"}]

EmptySequence == MakeSequence(<<>>, 0, "chromatic", "forward")

TIdle ==
    /\ tSeq = EmptySequence
    /\ tOp = "none"
    /\ tOut = <<>>

TStart ==
    /\ \E steps \in [1..TCap -> TSteps], length \in 1..TCap :
           tSeq = MakeSequence(steps, length, "minor", "forward")
    /\ tOp = "none"
    /\ tOut = <<>>

\* The argument of the next call: the input, or the previous result.
TArg == IF tOut = <<>> THEN tSeq ELSE tOut[Len(tOut)]

ApplyInvert ==
    /\ tOp \in {"none", "invert"}
    /\ Len(tOut) < MaxTCalls
    /\ tOp' = "invert"
    /\ tOut' = Append(tOut, invertSequence(TArg))
    /\ UNCHANGED tSeq
    /\ UNCHANGED TOthers

ApplyReverse ==
    /\ tOp \in {"none", "reverse"}
    /\ Len(tOut) < MaxTCalls
    /\ tOp' = "reverse"
    /\ tOut' = Append(tOut, reverseSequence(TArg))
    /\ UNCHANGED tSeq
    /\ UNCHANGED TOthers

TNext == ApplyInvert \/ ApplyReverse

----------------------------------------------------------------------------
(* The tree builder and the flattener on bounded inputs *)

MakePattern(trunk, branchesCount, pathValue, branchConfig, branchPlaybackOrder) ==
    [trunk |-> trunk, branchesCount |-> branchesCount, pathValue |-> pathValue,
     mutationAmount |-> 0, rootOffsetSemitones |-> 0, divMult |-> [num |-> 1, den |-> 1],
     branchConfig |-> branchConfig, branchPlaybackOrder |-> branchPlaybackOrder]

\* channels[0] with its current pattern; generatedTree is <<>> (null) or <<tree>>,
\* activeSequence is <<>> (undefined) or <<sequence>>.
MakeChannel(pattern) ==
    [pattern |-> pattern, generatedTree |-> <<>>, activeSequence |-> <<>>]

\* pathValue k / PathSteps.
PathValues == {[num |-> k, den |-> PathSteps] : k \in 0..PathSteps}

\* Trunks: every gate on with rising pitches, and alternating gates with falling ones.
FTrunkSteps ==
    { [i \in 1..Cap |-> MakeStep(i * PitchUnit, TRUE)],
      [i \in 1..Cap |-> MakeStep((Cap - i) * 2 * PitchUnit, i % 2 = 1)] }

\* Branch configurations: the default one, none (the fallback recipe at every depth),
\* and one whose first level mutates with an unset parameter and reverses.
FBranchConfigs ==
    { DefaultBranchConfig, <<>>, <<MakeConfig("mutate", "reverse", 0, 0)>> }

FIdle ==
    /\ channel = MakeChannel(MakePattern(EmptySequence, 0, [num |-> 0, den |-> 1],
                                         <<>>, "forward"))
    /\ fOut = <<>>

FStart ==
    /\ \E steps \in FTrunkSteps, length \in 1..Cap, order \in PlaybackOrders,
          branchesCount \in 0..MaxBranches, pathValue \in PathValues,
          branchConfig \in FBranchConfigs, branchOrder \in BranchPlaybackOrders :
           channel = MakeChannel(MakePattern(
                         MakeSequence(steps, length, "minor", order),
                         branchesCount, pathValue, branchConfig, branchOrder))
    /\ fOut = <<>>

\* channel.generatedTree = generateTreeForChannel(channel)
FGenerate ==
    /\ channel.generatedTree = <<>>
    /\ \E rnd \in RandomStreams :
           channel' = [channel EXCEPT !.generatedTree = <<generateTreeForChannel(channel, rnd)>>]
    /\ UNCHANGED fOut
    /\ UNCHANGED FOthers

\* buildPlaybackSequence(channel), called twice at most; hadTree records whether the
\* channel had its tree at the call.
FFlatten ==
    /\ Len(fOut) < 2
    /\ \E rnd \in RandomStreams :
           fOut' = Append(fOut, [hadTree |-> channel.generatedTree # <<>>,
                                 result |-> buildPlaybackSequence(channel, rnd)])
    /\ UNCHANGED channel
    /\ UNCHANGED FOthers

FNext == FGenerate \/ FFlatten

----------------------------------------------------------------------------
(* The transformations and the tree builder on the object heap *)

\* Sequences here are references: seq.steps is the index of a steps array in
\* heap.arrs, and a steps array holds indices of step objects in heap.objs. An
\* assignment through a reference writes the heap, so that two references to one
\* object see each other's writes.

\* The steps array of seq, as indices of step objects.
StepIds(h, seq) == h.arrs[seq.steps]

\* The sequence as a value: every reference followed.
Deref(h, seq) ==
    [seq EXCEPT !.steps = [i \in 1..Len(StepIds(h, seq)) |-> h.objs[StepIds(h, seq)[i]]]]

\* The mutant: { ...seq }, a copy of the sequence object that shares the steps array
\* and the step objects.
CloneSharingSteps(h, seq) ==
    [heap |-> h, seq |-> seq]

\* { ...seq, steps: seq.steps.map((s) => ({ ...s })) }: a new step object for every
\* step and a new array holding them.
cloneSequenceOnHeap(h, seq) ==
    LET ids == StepIds(h, seq)
        n == Len(h.objs)
        arrs == Append(h.arrs, [i \in 1..Len(ids) |-> n + i])
    IN  [heap |-> [objs |-> h.objs \o [i \in 1..Len(ids) |-> h.objs[ids[i]]],
                   arrs |-> arrs],
         seq |-> [seq EXCEPT !.steps = Len(arrs)]]

\* The heap after step.pitch = pitches[i] for the step object ids[i], for every i; the
\* step objects of one array are different objects.
WritePitches(h, ids, pitches) ==
    [h EXCEPT !.objs =
        [k \in 1..Len(h.objs) |->
            IF \E i \in 1..Len(ids) : ids[i] = k
            THEN [h.objs[k] EXCEPT !.pitch = pitches[CHOOSE i \in 1..Len(ids) : ids[i] = k]]
            ELSE h.objs[k]]]

\* const x = value, and what follows with x: the value is computed once.
Bind(value, Rest(_)) == CHOOSE result \in {Rest(x) : x \in {value}} : TRUE

transposeSequenceOnHeap(h, seq, semitones) ==
    Bind(cloneSequenceOnHeap(h, seq), LAMBDA c :
        LET ids == StepIds(c.heap, c.seq)
        IN  [heap |-> WritePitches(c.heap, ids,
                          [i \in 1..Len(ids) |->
                              c.heap.objs[ids[i]].pitch + semitones * PitchUnit]),
             seq |-> c.seq])

invertSequenceOnHeap(h, seq) ==
    Bind(cloneSequenceOnHeap(h, seq), LAMBDA c :
        LET ids == StepIds(c.heap, c.seq)
        IN  IF Len(ids) = 0 THEN c
            ELSE Bind(PitchRange(Deref(c.heap, c.seq).steps, 1, Infinity, -Infinity),
                      LAMBDA range :
                          [heap |-> WritePitches(c.heap, ids,
                                        [i \in 1..Len(ids) |->
                                            range[2] - (c.heap.objs[ids[i]].pitch - range[1])]),
                           seq |-> c.seq]))

\* newSeq.steps[i] = activeSteps[i] writes the steps array of the clone.
reverseSequenceOnHeap(h, seq) ==
    Bind(cloneSequenceOnHeap(h, seq), LAMBDA c :
        LET ids == StepIds(c.heap, c.seq)
            activeSteps == Reverse(Slice(ids, c.seq.length))
        IN  [heap |-> [c.heap EXCEPT !.arrs[c.seq.steps] =
                          [i \in 1..Len(ids) |->
                              IF i <= c.seq.length THEN activeSteps[i] ELSE ids[i]]],
             seq |-> c.seq])

mutateSequenceOnHeap(h, seq, range, rnd, base) ==
    Bind(cloneSequenceOnHeap(h, seq), LAMBDA c :
        LET ids == StepIds(c.heap, c.seq)
        IN  IF range = 0 THEN c
            ELSE [heap |-> WritePitches(c.heap, ids,
                               [i \in 1..Len(ids) |->
                                   IF c.heap.objs[ids[i]].gateOn
                                   THEN c.heap.objs[ids[i]].pitch
                                        + RandFloor(Rand(rnd, base + i),
                                                    range * 2 + PitchUnit, PitchUnit) * PitchUnit
                                        - range
                                   ELSE c.heap.objs[ids[i]].pitch]),
                  seq |-> c.seq])

\* The sequence of a child on the heap: kind applied to the parent's sequence.
ApplyModificationOnHeap(kind, h, seq, param, rnd, base) ==
    IF kind = "transpose" THEN transposeSequenceOnHeap(h, seq, param)
    ELSE IF kind = "invert" THEN invertSequenceOnHeap(h, seq)
    ELSE IF kind = "reverse" THEN reverseSequenceOnHeap(h, seq)
    ELSE mutateSequenceOnHeap(h, seq, ParamOrDefault(param), rnd, base)

\* A sequence made, with its steps as they are at that moment.
Made(h, seq) == [seq |-> seq, value |-> Deref(h, seq)]

\* buildChildren(node) on the heap: the heap after it, the node with its subtree and
\* the sequences made, in the order of the calls.
RECURSIVE buildChildrenOnHeap(_, _, _, _, _, _)
buildChildrenOnHeap(h, node, id, pattern, maxDepth, rnd) ==
    IF node.depth >= maxDepth THEN [heap |-> h, node |-> node, made |-> <<>>]
    ELSE
      LET d == node.depth + 1
          config == IF d <= Len(pattern.branchConfig) THEN pattern.branchConfig[d]
                    ELSE FallbackConfig
      IN  Bind(ApplyModificationOnHeap(config.left, h, node.sequence,
                                       config.leftParam, rnd, 2 * id), LAMBDA l :
          Bind(ApplyModificationOnHeap(config.right, l.heap, node.sequence,
                                       config.rightParam, rnd, 2 * id + 1), LAMBDA r :
          Bind(buildChildrenOnHeap(r.heap, MakeNode(l.seq, d, config.left),
                                   2 * id, pattern, maxDepth, rnd), LAMBDA left :
          Bind(buildChildrenOnHeap(left.heap, MakeNode(r.seq, d, config.right),
                                   2 * id + 1, pattern, maxDepth, rnd), LAMBDA right :
              [heap |-> right.heap,
               node |-> [node EXCEPT !.left = <<left.node>>, !.right = <<right.node>>],
               made |-> <<Made(l.heap, l.seq), Made(r.heap, r.seq)>>
                        \o left.made \o right.made]))))

\* generateTreeForChannel on the heap; the root's sequence is the trunk itself.
generateTreeOnHeap(h, pattern, rnd) ==
    LET root == MakeNode(pattern.trunk, 0, "null")
        maxDepth == pattern.branchesCount
    IN  IF maxDepth = 0
        THEN [heap |-> h, tree |-> [root |-> root, maxDepth |-> maxDepth], made |-> <<>>]
        ELSE Bind(buildChildrenOnHeap(h, root, 1, pattern, maxDepth, rnd), LAMBDA built :
                 [heap |-> built.heap,
                  tree |-> [root |-> built.node, maxDepth |-> maxDepth],
                  made |-> built.made])

\* The node with its subtree as values.
RECURSIVE DerefNode(_, _)
DerefNode(h, node) ==
    [node EXCEPT !.sequence = Deref(h, node.sequence),
                 !.left = IF node.left = <<>> THEN <<>> ELSE <<DerefNode(h, node.left[1])>>,
                 !.right = IF node.right = <<>> THEN <<>> ELSE <<DerefNode(h, node.right[1])>>]

----------------------------------------------------------------------------
(* The heap on bounded inputs *)

HSteps == [pitch : {0, PitchUnit}, gateOn : BOOLEAN,
           ratchets : {1}, slew : {0}, gateLength : {"p50"}]

\* One recipe for every depth, over every pair of kinds, and no recipe at all.
HBranchConfigs ==
    { [d \in 1..MaxBranches |-> MakeConfig(left, right, 3, 0)] :
          left \in ModificationKinds, right \in ModificationKinds } \cup { <<>> }

\* The parameter handed to a transformation called on its own.
HParam == 2

HIdle ==
    /\ heap = [objs |-> <<>>, arrs |-> <<>>]
    /\ hPattern = MakePattern(EmptySequence, 0, [num |-> 0, den |-> 1], <<>>, "forward")
    /\ hMade = <<>>
    /\ hTree = <<>>

\* The trunk is the first array of the heap.
HStart ==
    /\ \E steps \in [1..HCap -> HSteps], length \in 1..HCap,
          branchesCount \in 0..MaxBranches, branchConfig \in HBranchConfigs :
           LET h == [objs |-> steps, arrs |-> << [i \in 1..HCap |-> i] >>]
               trunk == MakeSequence(1, length, "minor", "forward")
           IN  /\ heap = h
               /\ hPattern = MakePattern(trunk, branchesCount, [num |-> 0, den |-> 1],
                                         branchConfig, "forward")
               /\ hMade = <<Made(h, trunk)>>
    /\ hTree = <<>>

\* The Math.random() results a transformation of the kind can read.
HDraws(kinds) ==
    IF "mutate" \in kinds THEN RandomStreams ELSE {[i \in 1..RandLen |-> 0]}

\* One of the four transformations called on its own, on a sequence of the heap of a
\* pattern that grows no branches.
HTransform ==
    /\ hTree = <<>>
    /\ hPattern.branchesCount = 0
    /\ Len(hMade) < 1 + MaxHCalls
    /\ \E k \in 1..Len(hMade), kind \in ModificationKinds :
       \E rnd \in HDraws({kind}) :
       \E out \in {ApplyModificationOnHeap(kind, heap, hMade[k].seq, HParam, rnd, 0)} :
           /\ heap' = out.heap
           /\ hMade' = Append(hMade, Made(out.heap, out.seq))
    /\ UNCHANGED <<hPattern, hTree>>
    /\ UNCHANGED HOthers

\* generateTreeForChannel(channel) on the heap.
HGenerate ==
    /\ hTree = <<>>
    /\ \E rnd \in HDraws({hPattern.branchConfig[d].left : d \in 1..Len(hPattern.branchConfig)}
                         \cup {hPattern.branchConfig[d].right : d \in 1..Len(hPattern.branchConfig)}) :
       \E out \in {generateTreeOnHeap(heap, hPattern, rnd)} :
           /\ heap' = out.heap
           /\ hTree' = <<out.tree>>
           /\ hMade' = hMade \o out.made
    /\ UNCHANGED hPattern
    /\ UNCHANGED HOthers

HNext == HTransform \/ HGenerate

----------------------------------------------------------------------------
(* Step scheduler: index resolution *)

\* The mutant: the forward order reads the base step as it is, without the modulo.
GetStepIndexUnwrapped(seq, baseStepIndex, r) ==
    IF seq.length = 0 THEN 0
    ELSE IF seq.playbackOrder = "forward" THEN baseStepIndex
    ELSE RandFloor(r, seq.length, 1)

\* The mutant: the pendulum cycle repeats both ends (cycle 2 len, 0 1 2 3 3 2 1 0).
GetStepIndexPendulumWide(seq, baseStepIndex, r) ==
    LET len == seq.length
    IN  IF len = 0 THEN 0
        ELSE IF seq.playbackOrder = "forward" THEN baseStepIndex % len
        ELSE IF seq.playbackOrder = "backward" THEN (len - 1) - (baseStepIndex % len)
        ELSE IF seq.playbackOrder = "pendulum"
        THEN LET cycle == 2 * len
                 pos == baseStepIndex % cycle
             IN  IF pos < len THEN pos ELSE cycle - 1 - pos
        ELSE RandFloor(r, len, 1)

\* getStepIndexAtTick(seq, baseStepIndex); r is the result of Math.random(), read by
\* the 'random' case alone.
getStepIndexAtTick(seq, baseStepIndex, r) ==
    LET len == seq.length
    IN  IF len = 0 THEN 0
        ELSE IF seq.playbackOrder = "forward" THEN baseStepIndex % len
        ELSE IF seq.playbackOrder = "backward" THEN (len - 1) - (baseStepIndex % len)
        ELSE IF seq.playbackOrder = "pendulum"
        THEN IF len <= 1 THEN 0
             ELSE LET cycle == 2 * len - 2
                      pos == baseStepIndex % cycle
                  IN  IF pos < len THEN pos ELSE cycle - pos
        ELSE IF seq.playbackOrder = "random" THEN RandFloor(r, len, 1)
        ELSE 0

----------------------------------------------------------------------------
(* Index resolution on bounded inputs *)

IIdle ==
    /\ iSeq = EmptySequence
    /\ iOut = <<>>

IStart ==
    /\ \E len \in 1..MaxILen, order \in PlaybackOrders :
           iSeq = MakeSequence([i \in 1..len |-> MakeStep(0, FALSE)], len, "minor", order)
    /\ iOut = <<>>

\* getStepIndexAtTick(seq, n) for the next counter n = 0, 1, 2, ...
ResolveIndex ==
    /\ Len(iOut) < MaxCounter
    /\ \E r \in RandomValues :
           iOut' = Append(iOut, getStepIndexAtTick(iSeq, Len(iOut), r))
    /\ UNCHANGED iSeq
    /\ UNCHANGED IOthers

INext == ResolveIndex

----------------------------------------------------------------------------
(* Step scheduler: the engine *)

\* 0.1 s, the lookahead window of processChannel.
Lookahead == TimeUnit \div 10

\* 0.006 s, the duration of a 'trigger' gate.
TriggerDuration == (6 * TimeUnit) \div 1000

\* Tone.Transport.toSeconds("4n") / 4 at the given tempo.
SixteenthTime(bpm) == ((60 * TimeUnit) \div bpm) \div 4

\* The period of the callback scheduled at "32n".
ThirtySecondTime(bpm) == ((60 * TimeUnit) \div bpm) \div 8

\* percentages[gateLength] || 0.5, in percent.
GatePercent(gateLength) ==
    CASE gateLength = "p10" -> 10
      [] gateLength = "p25" -> 25
      [] gateLength = "p50" -> 50
      [] gateLength = "p75" -> 75
      [] gateLength = "p90" -> 90
      [] OTHER -> 50

\* The channelState of the constructor, and of stop().
InitialChannelState ==
    [currentBaseStep |-> 0, currentRatchetCount |-> 0, nextNoteTime |-> 0,
     lastTriggeredStepIndex |-> -1]

\* The mutant: the tick flattens the channel itself and ignores the cached sequence.
TickReadRebuild(ch, rnd) ==
    [sequence |-> buildPlaybackSequence(ch, rnd), flattened |-> TRUE]

\* "channel.activeSequence || buildPlaybackSequence(channel)": the sequence the tick
\* plays, and whether the flattener was called for it.
TickRead(ch, rnd) ==
    IF ch.activeSequence # <<>>
    THEN [sequence |-> ch.activeSequence[1], flattened |-> FALSE]
    ELSE [sequence |-> buildPlaybackSequence(ch, rnd), flattened |-> TRUE]

\* The mutant: the attack is handed to the synth without its release.
TriggerAttackOnly(note, duration, time) ==
    << [kind |-> "attack", note |-> note, time |-> time] >>

\* synth.triggerAttackRelease(freq, duration, time): the attack at time and the
\* release at time + duration, both handed to the synth by the one call.
triggerAttackRelease(note, duration, time) ==
    << [kind |-> "attack", note |-> note, time |-> time],
       [kind |-> "release", note |-> note, time |-> time + duration] >>

\* The mutant: start() without its early return.
StartAgain(eng, tr) ==
    [engine |-> [eng EXCEPT !.isPlaying = TRUE],
     transport |-> [tr EXCEPT !.callbacks = @ + 1]]

\* start(): nothing while playing, else isPlaying and one more repeating callback.
start(eng, tr) ==
    IF eng.isPlaying THEN [engine |-> eng, transport |-> tr]
    ELSE [engine |-> [eng EXCEPT !.isPlaying = TRUE],
          transport |-> [tr EXCEPT !.callbacks = @ + 1]]

\* The mutant: stop() leaves the ratchet count as it is.
StopKeepsRatchetCount(eng, tr, cs) ==
    [engine |-> [eng EXCEPT !.isPlaying = FALSE],
     transport |-> [tr EXCEPT !.callbacks = 0],
     channelState |-> [InitialChannelState EXCEPT
                          !.currentRatchetCount = cs.currentRatchetCount]]

\* stop(): Transport.cancel() removes every callback, the tick state is reset.
stop(eng, tr, cs) ==
    [engine |-> [eng EXCEPT !.isPlaying = FALSE],
     transport |-> [tr EXCEPT !.callbacks = 0],
     channelState |-> [cs EXCEPT !.currentBaseStep = 0,
                                 !.currentRatchetCount = 0,
                                 !.nextNoteTime = 0,
                                 !.lastTriggeredStepIndex = -1]]

\* The mutant: the ratchet count is reset but the base step never moves on.
AdvanceWithinStep(cs, ratchets, ratchetDuration) ==
    LET next == [cs EXCEPT !.currentRatchetCount = @ + 1,
                           !.nextNoteTime = @ + ratchetDuration]
    IN  IF next.currentRatchetCount >= ratchets
        THEN [next EXCEPT !.currentRatchetCount = 0]
        ELSE next

\* The mutant: the base step moves on at every scheduling tick.
AdvanceEveryTick(cs, ratchets, ratchetDuration) ==
    [cs EXCEPT !.currentRatchetCount = 0,
               !.nextNoteTime = @ + ratchetDuration,
               !.currentBaseStep = @ + 1]

\* "Advance state" at the end of processChannel.
AdvanceState(cs, ratchets, ratchetDuration) ==
    LET next == [cs EXCEPT !.currentRatchetCount = @ + 1,
                           !.nextNoteTime = @ + ratchetDuration]
    IN  IF next.currentRatchetCount >= ratchets
        THEN [next EXCEPT !.currentRatchetCount = 0,
                          !.currentBaseStep = @ + 1]
        ELSE next

\* stepDuration: sixteenthTime / pattern.divMult, in either branch.
StepDurationOf(pattern, sixteenthTime) ==
    IF pattern.divMult.num >= pattern.divMult.den
    THEN (sixteenthTime * pattern.divMult.den) \div pattern.divMult.num
    ELSE (sixteenthTime * pattern.divMult.den) \div pattern.divMult.num

\* ratchetDuration: stepDuration / ratchets, Infinity for ratchets 0.
RatchetDurationOf(stepDuration, ratchets) ==
    IF ratchets = 0 THEN Infinity ELSE stepDuration \div ratchets

\* The mutant: a tied gate is held for two ratchet durations.
GateDurationHeld(gateLength, ratchetDuration) ==
    IF gateLength = "tied" THEN 2 * ratchetDuration
    ELSE IF gateLength = "trigger" THEN TriggerDuration
    ELSE (ratchetDuration * GatePercent(gateLength)) \div 100

\* duration: the full ratchet duration when tied, 0.006 s for a trigger, else the
\* percentage of the ratchet duration (Infinity times a percentage is Infinity).
GateDurationOf(gateLength, ratchetDuration) ==
    IF gateLength = "tied" THEN ratchetDuration
    ELSE IF gateLength = "trigger" THEN TriggerDuration
    ELSE IF ratchetDuration >= Infinity THEN Infinity
    ELSE (ratchetDuration * GatePercent(gateLength)) \div 100

\* The mutant: the index is recorded whether the gate is on or not.
MarkAlways(cs, step, stepIndex) ==
    [cs EXCEPT !.lastTriggeredStepIndex = stepIndex]

\* "if (step.gateOn) channelState.lastTriggeredStepIndex = stepIndex"
MarkTriggered(cs, step, stepIndex) ==
    IF step.gateOn THEN [cs EXCEPT !.lastTriggeredStepIndex = stepIndex] ELSE cs

\* The mutant: the tick never finds itself ahead of the scheduled time.
NeverAhead(cs, time) == FALSE

\* "if (channelState.nextNoteTime > time + 0.1) return"
AheadOfSchedule(cs, time) == cs.nextNoteTime > time + Lookahead

\* processChannel(channel, time) past the reading of the sequence: the new
\* channelState and what was handed to the synth, as [state, emitted].
ProcessSequence(ch, sequence, cs, eng, time, r) ==
    IF sequence.length = 0 THEN [state |-> cs, emitted |-> <<>>]
    ELSE IF AheadOfSchedule(cs, time) THEN [state |-> cs, emitted |-> <<>>]
    ELSE
      LET pattern == ch.pattern
          cs1 == IF cs.nextNoteTime = 0 THEN [cs EXCEPT !.nextNoteTime = time] ELSE cs
          stepIndex == getStepIndexAtTick(sequence, cs1.currentBaseStep, r)
      IN  IF stepIndex + 1 > Len(sequence.steps)
          THEN [state |-> [cs1 EXCEPT !.currentBaseStep = 0], emitted |-> <<>>]
          ELSE
            LET step == sequence.steps[stepIndex + 1]
                sixteenthTime == SixteenthTime(eng.bpm)
                stepDuration == StepDurationOf(pattern, sixteenthTime)
                ratchets == IF eng.ratchetsEnabled THEN step.ratchets ELSE 1
                ratchetDuration == RatchetDurationOf(stepDuration, ratchets)
                scheduleTime == cs1.nextNoteTime
                pitch == quantizePitch(step.pitch, sequence.scale)
                         + (pattern.rootOffsetSemitones + 60) * PitchUnit
                duration == GateDurationOf(step.gateLength, ratchetDuration)
                cs2 == MarkTriggered(cs1, step, stepIndex)
            IN  [state |-> AdvanceState(cs2, ratchets, ratchetDuration),
                 emitted |-> IF step.gateOn
                             THEN triggerAttackRelease(pitch, duration, scheduleTime)
                             ELSE <<>>]

----------------------------------------------------------------------------
(* The application: state after construction *)

\* createRandomTrunk(), with Cap steps in the array; step i draws its gate, its pitch
\* and its gate length in that order.
createRandomTrunk(rnd) ==
    MakeSequence(
        [i \in 1..Cap |->
            LET isNote == Rand(rnd, 3 * (i - 1)) * 10 > 6 * RandScale
            IN  [pitch |-> (RandFloor(Rand(rnd, 3 * (i - 1) + 1), 24, 1) - 12) * PitchUnit,
                 gateOn |-> isNote,
                 ratchets |-> 1,
                 slew |-> 0,
                 gateLength |-> IF Rand(rnd, 3 * (i - 1) + 2) * 10 > 8 * RandScale
                                THEN "p90" ELSE "p50"]],
        Min(8, Cap), "minor", "forward")

\* createInitialState(), the fields the engine reads.
createInitialState ==
    [bpm |-> 120, isPlaying |-> FALSE, ratchetsEnabled |-> FALSE, outputMode |-> "audio"]

\* updateActiveSequence()
updateActiveSequence(ch, rnd) ==
    [ch EXCEPT !.activeSequence = <<buildPlaybackSequence(ch, rnd)>>]

\* regenerateTree()
regenerateTree(ch, rndTree, rndFlat) ==
    updateActiveSequence(
        [ch EXCEPT !.generatedTree = <<generateTreeForChannel(ch, rndTree)>>], rndFlat)

\* A write to pattern.trunk in place: the root of the generated tree holds the same
\* object, so the write shows through generatedTree.root.sequence.
WriteTrunk(ch, trunk) ==
    [ch EXCEPT !.pattern.trunk = trunk,
               !.generatedTree = IF @ = <<>> THEN @
                                 ELSE <<[@[1] EXCEPT !.root.sequence = trunk]>>]

EIdle ==
    /\ engine = createInitialState
    /\ channelState = InitialChannelState
    /\ transport = [callbacks |-> 0, now |-> 0]
    /\ notes = <<>>
    /\ tickReads = <<>>
    /\ tickFlattens = 0
    /\ edits = 0
    /\ ticks = 0
    /\ lastEdit = [rebuilt |-> TRUE, reflattened |-> TRUE]
    /\ stoppedAt = 0

----------------------------------------------------------------------------
(* The application: transport handlers and the scheduler tick *)

\* playBtn 'click': engine.start()
PlayClick ==
    /\ engine' = start(engine, transport).engine
    /\ transport' = start(engine, transport).transport
    /\ UNCHANGED <<channel, channelState, notes, tickReads, tickFlattens, edits, ticks,
                   lastEdit, stoppedAt>>
    /\ UNCHANGED AOthers

\* stopBtn 'click': engine.stop()
StopClick ==
    /\ engine' = stop(engine, transport, channelState).engine
    /\ transport' = stop(engine, transport, channelState).transport
    /\ channelState' = stop(engine, transport, channelState).channelState
    /\ stoppedAt' = channelState.currentRatchetCount
    /\ UNCHANGED <<channel, notes, tickReads, tickFlattens, edits, ticks, lastEdit>>
    /\ UNCHANGED AOthers

\* bpmSlider 'input': engine.updateBpm(val)
BpmInput ==
    /\ edits < MaxEdits
    /\ \E val \in {60, 120} : engine' = [engine EXCEPT !.bpm = val]
    /\ edits' = edits + 1
    /\ UNCHANGED <<channel, channelState, transport, notes, tickReads, tickFlattens,
                   ticks, lastEdit, stoppedAt>>
    /\ UNCHANGED AOthers

\* ratchets-toggle 'change'
RatchetsToggle ==
    /\ edits < MaxEdits
    /\ \E checked \in BOOLEAN : engine' = [engine EXCEPT !.ratchetsEnabled = checked]
    /\ edits' = edits + 1
    /\ UNCHANGED <<channel, channelState, transport, notes, tickReads, tickFlattens,
                   ticks, lastEdit, stoppedAt>>
    /\ UNCHANGED AOthers

\* The Math.random() results generateTreeForChannel can read: it draws only for a
\* 'mutate' recipe at a depth the tree has.
TreeDraws(ch) ==
    IF \E d \in 1..ch.pattern.branchesCount :
           /\ d <= Len(ch.pattern.branchConfig)
           /\ "mutate" \in {ch.pattern.branchConfig[d].left, ch.pattern.branchConfig[d].right}
    THEN RandomStreams
    ELSE {[i \in 1..RandLen |-> 0]}

\* The Math.random() results buildPlaybackSequence can read: it draws only for a
\* 'random' branch order or trunk order.
FlattenDraws(ch) ==
    IF "random" \in {ch.pattern.branchPlaybackOrder, ch.pattern.trunk.playbackOrder}
    THEN RandomStreams
    ELSE {[i \in 1..RandLen |-> 0]}

\* The Math.random() results getStepIndexAtTick can read in a tick: it draws only
\* for a 'random' order of the sequence played.
TickDraws(ch) ==
    IF "random" \in {ch.pattern.trunk.playbackOrder}
                    \cup {ch.activeSequence[i].playbackOrder : i \in 1..Len(ch.activeSequence)}
    THEN RandomValues
    ELSE {0}

\* The callback of scheduleRepeat: tick(time), processChannel(channels[0], time).
\* tickReads lists the sequences the ticks have played since the last call of
\* regenerateTree or updateActiveSequence, tickFlattens counts the ticks that called
\* the flattener although the channel had its activeSequence.
TickCallback ==
    /\ transport.callbacks >= 1
    /\ \E rnd \in TreeDraws(channel) \cup FlattenDraws(channel), r \in TickDraws(channel) :
           LET time == transport.now
               read == TickRead(channel, rnd)
               out == ProcessSequence(channel, read.sequence, channelState, engine,
                                      time, r)
           IN  /\ channelState' = out.state
               /\ notes' = notes \o out.emitted
               /\ tickReads' = Append(tickReads, read.sequence)
               /\ tickFlattens' = IF read.flattened /\ channel.activeSequence # <<>>
                                  THEN tickFlattens + 1 ELSE tickFlattens
    /\ transport' = [transport EXCEPT !.now = @ + ThirtySecondTime(engine.bpm)]
    /\ ticks' = ticks + 1
    /\ UNCHANGED <<channel, engine, edits, lastEdit, stoppedAt>>
    /\ UNCHANGED AOthers

Tick ==
    /\ ticks < MaxTicks
    /\ TickCallback

----------------------------------------------------------------------------
(* The application: editing handlers *)

\* The values the handlers receive from the controls.
ScaleChoices == {"minor", "unquantized"}
BranchParamChoices == {0, 2}

\* What every editing handler leaves alone; its call of regenerateTree or of
\* updateActiveSequence opens a new interval for tickReads.
AfterEdit ==
    /\ tickReads' = <<>>
    /\ edits' = edits + 1
    /\ UNCHANGED <<engine, channelState, transport, notes, tickFlattens, ticks, stoppedAt>>
    /\ UNCHANGED AOthers

\* this.regenerateTree() at the end of a handler that has edited the channel.
RegenerateAfter(edited) ==
    /\ \E rndTree \in TreeDraws(edited), rndFlat \in FlattenDraws(edited) :
           channel' = regenerateTree(edited, rndTree, rndFlat)
    /\ lastEdit' = [rebuilt |-> TRUE, reflattened |-> TRUE]

\* this.updateActiveSequence() at the end of a handler that has edited the channel.
UpdateAfter(edited) ==
    /\ \E rndFlat \in FlattenDraws(edited) :
           channel' = updateActiveSequence(edited, rndFlat)
    /\ lastEdit' = [rebuilt |-> FALSE, reflattened |-> TRUE]

\* branchesSlider 'input'
BranchesInput ==
    /\ edits < MaxEdits
    /\ \E val \in 0..MaxBranches :
           RegenerateAfter([channel EXCEPT !.pattern.branchesCount = val])
    /\ AfterEdit

\* pathSlider 'input'
PathInput ==
    /\ edits < MaxEdits
    /\ \E val \in PathValues :
           RegenerateAfter([channel EXCEPT !.pattern.pathValue = val])
    /\ AfterEdit

\* branchPlaybackSelect 'change'
BranchPlaybackChange ==
    /\ edits < MaxEdits
    /\ \E val \in BranchPlaybackOrders :
           RegenerateAfter([channel EXCEPT !.pattern.branchPlaybackOrder = val])
    /\ AfterEdit

\* randomizeTrunk() up to its call of regenerateTree: the steps below trunk.length
\* draw a gate, a pitch and a ratchet count each.
randomizeTrunk(ch, rnd) ==
    LET trunk == ch.pattern.trunk
        steps == [i \in 1..Len(trunk.steps) |->
                     IF i <= trunk.length
                     THEN [trunk.steps[i] EXCEPT
                              !.gateOn = Rand(rnd, 3 * (i - 1)) * 10 > 5 * RandScale,
                              !.pitch = (RandFloor(Rand(rnd, 3 * (i - 1) + 1), 25, 1) - 12)
                                        * PitchUnit,
                              !.ratchets = IF Rand(rnd, 3 * (i - 1) + 2) * 10
                                              > 8 * RandScale THEN 2 ELSE 1]
                     ELSE trunk.steps[i]]
    IN  WriteTrunk(ch, [trunk EXCEPT !.steps = steps])

\* randomizeBtn 'click'
RandomizeClick ==
    /\ edits < MaxEdits
    /\ \E rnd \in RandomStreams : RegenerateAfter(randomizeTrunk(channel, rnd))
    /\ AfterEdit

\* scaleSelect 'change'
ScaleChange ==
    /\ edits < MaxEdits
    /\ \E val \in ScaleChoices :
           UpdateAfter(WriteTrunk(channel, [channel.pattern.trunk EXCEPT !.scale = val]))
    /\ AfterEdit

\* orderSelect 'change'
OrderChange ==
    /\ edits < MaxEdits
    /\ \E val \in PlaybackOrders :
           UpdateAfter(WriteTrunk(channel,
                                  [channel.pattern.trunk EXCEPT !.playbackOrder = val]))
    /\ AfterEdit

\* lengthInput 'change': Math.max(1, Math.min(32, len)), the array holding Cap steps.
LengthChange ==
    /\ edits < MaxEdits
    /\ \E len \in 0..(Cap + 1) :
           LET clamped == IF Min(Cap, len) >= 1 THEN Min(Cap, len) ELSE 1
           IN  RegenerateAfter(WriteTrunk(channel,
                                          [channel.pattern.trunk EXCEPT !.length = clamped]))
    /\ AfterEdit

\* handleCanvasClick(e) up to its call of regenerateTree, the click within the hit
\* radius of step closestIndex.
handleCanvasClick(ch, closestIndex, r) ==
    LET seq == ch.pattern.trunk
        step == seq.steps[closestIndex + 1]
        toggled == [step EXCEPT !.gateOn = ~step.gateOn]
        pitched == IF toggled.gateOn
                   THEN [toggled EXCEPT !.pitch = (RandFloor(r, 25, 1) - 12) * PitchUnit]
                   ELSE toggled
    IN  WriteTrunk(ch, [seq EXCEPT !.steps[closestIndex + 1] = pitched])

\* canvas 'click'
CanvasClick ==
    /\ edits < MaxEdits
    /\ \E closestIndex \in 0..(channel.pattern.trunk.length - 1), r \in RandomValues :
           RegenerateAfter(handleCanvasClick(channel, closestIndex, r))
    /\ AfterEdit

\* .branch-select 'change'
BranchSelectChange ==
    /\ edits < MaxEdits
    /\ \E level \in 0..(MaxBranches - 1), side \in {"left", "right"},
          val \in ModificationKinds :
           /\ level + 1 <= Len(channel.pattern.branchConfig)
           /\ RegenerateAfter(
                  [channel EXCEPT !.pattern.branchConfig[level + 1][side] = val])
    /\ AfterEdit

\* .branch-param 'change'
BranchParamChange ==
    /\ edits < MaxEdits
    /\ \E level \in 0..(MaxBranches - 1), side \in {"left", "right"},
          val \in BranchParamChoices :
           /\ level + 1 <= Len(channel.pattern.branchConfig)
           /\ RegenerateAfter(
                  IF side = "left"
                  THEN [channel EXCEPT !.pattern.branchConfig[level + 1].leftParam = val]
                  ELSE [channel EXCEPT !.pattern.branchConfig[level + 1].rightParam = val])
    /\ AfterEdit

Next ==
    \/ PlayClick
    \/ StopClick
    \/ BpmInput
    \/ RatchetsToggle
    \/ Tick
    \/ BranchesInput
    \/ PathInput
    \/ BranchPlaybackChange
    \/ RandomizeClick
    \/ ScaleChange
    \/ OrderChange
    \/ LengthChange
    \/ CanvasClick
    \/ BranchSelectChange
    \/ BranchParamChange


(* The application's channel on the heap: the cached sequence and edits in place *)

\* channel.activeSequence holds [seq, isTrunk]: isTrunk says that the sequence object
\* is pattern.trunk itself, whose fields are then read through the pattern.
ActiveOnHeap(h, ch) ==
    IF ch.activeSequence[1].isTrunk THEN Deref(h, ch.pattern.trunk)
    ELSE Deref(h, ch.activeSequence[1].seq)

\* The pattern and the tree of the channel as values.
DerefChannel(h, ch) ==
    [pattern |-> [ch.pattern EXCEPT !.trunk = Deref(h, @)],
     generatedTree |-> IF ch.generatedTree = <<>> THEN <<>>
                       ELSE <<[ch.generatedTree[1] EXCEPT !.root = DerefNode(h, @)]>>,
     activeSequence |-> <<>>]

\* The mutant: the flattener returns pattern.trunk, as it does without a tree.
FlattenReturnsTrunk(h, ch, rnd) ==
    [heap |-> h, seq |-> ch.pattern.trunk, isTrunk |-> TRUE]

\* buildPlaybackSequence(channel) on the heap: pattern.trunk itself without a tree,
\* else a new sequence object over a new array of new step objects ({ ...s }), its
\* length and scale copied as numbers and strings are.
flattenOnHeap(h, ch, rnd) ==
    IF ch.generatedTree = <<>>
    THEN [heap |-> h, seq |-> ch.pattern.trunk, isTrunk |-> TRUE]
    ELSE Bind(buildPlaybackSequence(DerefChannel(h, ch), rnd), LAMBDA value :
             LET n == Len(h.objs)
                 arrs == Append(h.arrs, [i \in 1..Len(value.steps) |-> n + i])
             IN  [heap |-> [objs |-> h.objs \o value.steps, arrs |-> arrs],
                  seq |-> [value EXCEPT !.steps = Len(arrs)],
                  isTrunk |-> FALSE])

\* updateActiveSequence() on the heap: the one assignment to channel.activeSequence.
updateActiveSequenceOnHeap(h, ch, rnd) ==
    Bind(flattenOnHeap(h, ch, rnd), LAMBDA f :
        Bind([ch EXCEPT !.activeSequence = <<[seq |-> f.seq, isTrunk |-> f.isTrunk]>>],
             LAMBDA cached :
                 [heap |-> f.heap, channel |-> cached,
                  result |-> ActiveOnHeap(f.heap, cached)]))

\* regenerateTree() on the heap.
regenerateTreeOnHeap(h, ch, rndTree, rndFlat) ==
    Bind(generateTreeOnHeap(h, ch.pattern, rndTree), LAMBDA g :
        updateActiveSequenceOnHeap(g.heap, [ch EXCEPT !.generatedTree = <<g.tree>>],
                                   rndFlat))

\* step.gateOn = ..., step.pitch = ..., step.ratchets = ... on step number i of the
\* trunk (counted from 1): the step object is written where it is.
WriteStepOnHeap(h, ch, i, gateOn, pitch, ratchets) ==
    [h EXCEPT !.objs[StepIds(h, ch.pattern.trunk)[i]] =
        [@ EXCEPT !.gateOn = gateOn, !.pitch = pitch, !.ratchets = ratchets]]

\* randomizeTrunk() on the heap, up to its call of regenerateTree.
RECURSIVE randomizeTrunkOnHeap(_, _, _, _)
randomizeTrunkOnHeap(h, ch, rnd, i) ==
    IF i > ch.pattern.trunk.length THEN h
    ELSE randomizeTrunkOnHeap(
             WriteStepOnHeap(h, ch, i,
                             Rand(rnd, 3 * (i - 1)) * 10 > 5 * RandScale,
                             (RandFloor(Rand(rnd, 3 * (i - 1) + 1), 25, 1) - 12) * PitchUnit,
                             IF Rand(rnd, 3 * (i - 1) + 2) * 10 > 8 * RandScale
                             THEN 2 ELSE 1),
             ch, rnd, i + 1)

\* handleCanvasClick(e) on the heap, up to its call of regenerateTree.
handleCanvasClickOnHeap(h, ch, closestIndex, r) ==
    LET step == h.objs[StepIds(h, ch.pattern.trunk)[closestIndex + 1]]
    IN  WriteStepOnHeap(h, ch, closestIndex + 1, ~step.gateOn,
                        IF ~step.gateOn THEN (RandFloor(r, 25, 1) - 12) * PitchUnit
                        ELSE step.pitch,
                        step.ratchets)

\* new App() on the heap: the trunk is the first array, init() has called
\* regenerateTree(). fOut lists the results of the flatten calls.
SStart ==
    /\ \E steps \in { [i \in 1..HCap |-> MakeStep(i * PitchUnit, TRUE)],
                      [i \in 1..HCap |-> MakeStep(-i * PitchUnit, i % 2 = 0)] },
          length \in 1..HCap,
          order \in {"forward", "pendulum"}, branchesCount \in 0..MaxBranches,
          branchConfig \in {DefaultBranchConfig, <<>>} :
           LET h == [objs |-> steps, arrs |-> << [i \in 1..HCap |-> i] >>]
               trunk == MakeSequence(1, length, "minor", order)
               pattern == MakePattern(trunk, branchesCount, [num |-> 0, den |-> PathSteps],
                                      branchConfig, "forward")
           IN  \E rnd \in TreeDraws(MakeChannel(pattern)) :
               \E out \in {regenerateTreeOnHeap(h, MakeChannel(pattern), rnd, rnd)} :
                   /\ heap = out.heap
                   /\ channel = out.channel
                   /\ fOut = <<[hadTree |-> TRUE, result |-> out.result]>>
    /\ hPattern = MakePattern(EmptySequence, 0, [num |-> 0, den |-> 1], <<>>, "forward")
    /\ hMade = <<>>
    /\ hTree = <<>>

\* What a handler on the heap leaves alone.
SOthers == <<qvars, tvars, ivars, hPattern, hMade, hTree, engine, channelState,
             transport, notes, tickFlattens, lastEdit, stoppedAt>>

\* this.regenerateTree() at the end of a handler that has written the heap and the
\* channel.
SRegenerateAfter(h, edited) ==
    /\ edits < MaxEdits
    /\ \E rndTree \in TreeDraws(edited), rndFlat \in FlattenDraws(edited) :
       \E out \in {regenerateTreeOnHeap(h, edited, rndTree, rndFlat)} :
           /\ heap' = out.heap
           /\ channel' = out.channel
           /\ fOut' = Append(fOut, [hadTree |-> TRUE, result |-> out.result])
    /\ edits' = edits + 1
    /\ UNCHANGED <<tickReads, ticks>>
    /\ UNCHANGED SOthers

\* randomizeBtn 'click'
SRandomizeClick ==
    \E rnd \in RandomStreams :
        SRegenerateAfter(randomizeTrunkOnHeap(heap, channel, rnd, 1), channel)

\* canvas 'click'
SCanvasClick ==
    \E closestIndex \in 0..(channel.pattern.trunk.length - 1), r \in RandomValues :
        SRegenerateAfter(handleCanvasClickOnHeap(heap, channel, closestIndex, r), channel)

\* lengthInput 'change': the trunk object is the root's sequence object too.
SLengthChange ==
    \E len \in 0..(HCap + 1) :
        LET clamped == IF Min(HCap, len) >= 1 THEN Min(HCap, len) ELSE 1
        IN  SRegenerateAfter(heap, WriteTrunk(channel, [channel.pattern.trunk EXCEPT
                                                           !.length = clamped]))

\* scaleSelect 'change': this.updateActiveSequence() alone.
SScaleChange ==
    /\ edits < MaxEdits
    /\ \E val \in ScaleChoices :
       \E out \in {updateActiveSequenceOnHeap(
                       heap,
                       WriteTrunk(channel, [channel.pattern.trunk EXCEPT !.scale = val]),
                       [i \in 1..RandLen |-> 0])} :
           /\ heap' = out.heap
           /\ channel' = out.channel
           /\ fOut' = Append(fOut, [hadTree |-> TRUE, result |-> out.result])
    /\ edits' = edits + 1
    /\ UNCHANGED <<tickReads, ticks>>
    /\ UNCHANGED SOthers

\* The tick's read of "channel.activeSequence || buildPlaybackSequence(channel)".
STick ==
    /\ ticks < MaxTicks
    /\ tickReads' = Append(tickReads, ActiveOnHeap(heap, channel))
    /\ ticks' = ticks + 1
    /\ UNCHANGED <<heap, channel, fOut, edits>>
    /\ UNCHANGED SOthers

SNext == SRandomizeClick \/ SCanvasClick \/ SLengthChange \/ SScaleChange \/ STick

----------------------------------------------------------------------------
(* The scheduler left to run on bounded inputs *)

\* Trunks of distinct pitches: every gate on with one or two ratchets, and
\* alternating gates.
LiveTrunkSteps ==
    { [i \in 1..Cap |-> [MakeStep(i * PitchUnit, TRUE) EXCEPT !.ratchets = 1 + (i % 2)]],
      [i \in 1..Cap |-> MakeStep(-i * PitchUnit, i % 2 = 0)] }

\* divMult: /2, x1 and x2.
LiveDivMults == {[num |-> 1, den |-> 2], [num |-> 1, den |-> 1], [num |-> 2, den |-> 1]}

\* The ticks followed: enough, at the slowest pace of four ticks a step, for MaxBase
\* steps and for a pendulum trunk unrolled by the flattener (2 Cap - 2 steps).
LiveTickCap == 4 * (MaxBase + 2 * Cap)

\* The sequence the ticks play.
LivePlayed ==
    IF channel.activeSequence # <<>> THEN channel.activeSequence[1]
    ELSE channel.pattern.trunk

\* A started engine on a channel whose activeSequence is cached (as the application
\* keeps it) or absent (the engine on its own, which then plays the trunk in the
\* trunk's order).
LStartWith(trunks, bpms, divMults) ==
    /\ \E steps \in trunks, length \in 1..Cap,
          order \in {"forward", "backward", "pendulum"},
          divMult \in divMults, cached \in BOOLEAN :
           LET pattern == [MakePattern(MakeSequence(steps, length, "chromatic", order),
                                       0, [num |-> 0, den |-> PathSteps],
                                       DefaultBranchConfig, "forward")
                               EXCEPT !.divMult = divMult]
               rnd == [i \in 1..RandLen |-> 0]
           IN  channel = IF cached THEN regenerateTree(MakeChannel(pattern), rnd, rnd)
                         ELSE MakeChannel(pattern)
    /\ \E bpm \in bpms, ratchetsEnabled \in BOOLEAN :
           engine = [createInitialState EXCEPT !.isPlaying = TRUE, !.bpm = bpm,
                                               !.ratchetsEnabled = ratchetsEnabled]
    /\ channelState = InitialChannelState
    /\ transport = [callbacks |-> 1, now |-> Lookahead]
    /\ notes = <<>>
    /\ tickReads = <<>>
    /\ tickFlattens = 0
    /\ edits = 0
    /\ ticks = 0
    /\ lastEdit = [rebuilt |-> TRUE, reflattened |-> TRUE]
    /\ stoppedAt = 0
    /\ fOut = <<>>

LStart == LStartWith(LiveTrunkSteps, {60, 120}, LiveDivMults)

\* Trunks whose steps carry any number the type of ratchets admits, 0 among them.
ZeroRatchetTrunkSteps ==
    { [i \in 1..Cap |-> [MakeStep(i * PitchUnit, TRUE) EXCEPT !.ratchets = i - 1]],
      [i \in 1..Cap |-> [MakeStep(-i * PitchUnit, i % 2 = 0) EXCEPT !.ratchets = i % 2]] }

ZStart == LStartWith(ZeroRatchetTrunkSteps, {60, 120}, LiveDivMults)

\* Trunks whose steps carry every kind of gate length, with one to four ratchets.
GateTrunkSteps ==
    LET kinds == <<"trigger", "p10", "p25", "p50", "p75", "p90", "tied">>
    IN  { [i \in 1..Cap |-> [MakeStep(i * PitchUnit, TRUE) EXCEPT
                                !.gateLength = kinds[((k + i) % 7) + 1],
                                !.ratchets = 1 + ((k + i) % 4)]] : k \in 0..6 }

\* The engine at a moderate and at a fast tempo, the clock at x1 and at x4.
GStart == LStartWith(GateTrunkSteps, {120, 240},
                     {[num |-> 1, den |-> 1], [num |-> 4, den |-> 1]})

\* The callback of scheduleRepeat, run again and again.
LiveTick ==
    /\ ticks < LiveTickCap
    /\ TickCallback

\* The transport's side of a tick: while the callback is scheduled, the next call
\* comes. Every LiveTick step is such a step, and one is possible exactly when
\* LiveTick is.
LiveSchedule ==
    /\ ticks < LiveTickCap
    /\ transport.callbacks >= 1
    /\ ticks' = ticks + 1

LNext == LiveTick

----------------------------------------------------------------------------
(* The quantizer on bounded inputs *)

QIdle ==
    /\ qPitch = 0
    /\ qScale = "unquantized"
    /\ qOut = <<>>
    /\ qUp = <<>>

QStart ==
    /\ qPitch \in (-MaxQPitch)..MaxQPitch
    /\ qScale \in ScaleNames
    /\ qOut = <<>>
    /\ qUp = <<>>

\* quantizePitch(p, s), then quantizePitch of the result.
QuantizeCall ==
    /\ Len(qOut) < MaxQCalls
    /\ qOut' = Append(qOut, quantizePitch(IF qOut = <<>> THEN qPitch * PitchUnit
                                           ELSE qOut[Len(qOut)], qScale))
    /\ UNCHANGED <<qPitch, qScale, qUp>>
    /\ UNCHANGED QOthers

\* quantizePitch(p + 12, s).
QuantizeOctaveUp ==
    /\ qUp = <<>>
    /\ qUp' = <<quantizePitch((qPitch + 12) * PitchUnit, qScale)>>
    /\ UNCHANGED <<qPitch, qScale, qOut>>
    /\ UNCHANGED QOthers

QNext == QuantizeCall \/ QuantizeOctaveUp

----------------------------------------------------------------------------
(* Specifications *)

\* The quantizer alone.
QInit == QStart /\ TIdle /\ FIdle /\ IIdle /\ EIdle /\ HIdle
SpecQuantize == QInit /\ [][QNext]_vars

\* The transformations alone.
TInit == TStart /\ QIdle /\ FIdle /\ IIdle /\ EIdle /\ HIdle
SpecTransform == TInit /\ [][TNext]_vars

\* The tree builder and the flattener alone.
FInit == FStart /\ QIdle /\ TIdle /\ IIdle /\ EIdle /\ HIdle
SpecFlatten == FInit /\ [][FNext]_vars

IInit == IStart /\ QIdle /\ TIdle /\ FIdle /\ EIdle /\ HIdle

\* The transformations and the tree builder on the heap alone.
HInit == HStart /\ QIdle /\ TIdle /\ FIdle /\ IIdle /\ EIdle
SpecHeap == HInit /\ [][HNext]_vars
SpecIndex == IInit /\ [][INext]_vars

\* new App(): createInitialState(), new SequencerEngine(state), init() with its
\* regenerateTree(). The audio clock has run for a while when the page is used.
Init ==
    /\ \E rnd \in RandomStreams :
           channel = regenerateTree(
                         MakeChannel(MakePattern(createRandomTrunk(rnd), 0,
                                                 [num |-> 0, den |-> PathSteps],
                                                 DefaultBranchConfig, "forward")),
                         rnd, rnd)
    /\ engine = createInitialState
    /\ channelState = InitialChannelState
    /\ transport = [callbacks |-> 0, now |-> Lookahead]
    /\ notes = <<>>
    /\ tickReads = <<>>
    /\ tickFlattens = 0
    /\ edits = 0
    /\ ticks = 0
    /\ lastEdit = [rebuilt |-> TRUE, reflattened |-> TRUE]
    /\ stoppedAt = 0
    /\ QIdle /\ TIdle /\ IIdle /\ HIdle
    /\ fOut = <<>>

Spec == Init /\ [][Next]_vars

\* The started engine with its tick: the transport calls the callback at a fixed rate
\* for as long as it is scheduled, which is weak fairness of the scheduled call.
LInit == LStart /\ QIdle /\ TIdle /\ IIdle /\ HIdle
SpecLive == LInit /\ [][LNext]_vars /\ WF_ticks(LiveSchedule)

\* The same engine given steps of any ratchet count.
ZInit == ZStart /\ QIdle /\ TIdle /\ IIdle /\ HIdle
SpecZeroRatchets == ZInit /\ [][LNext]_vars /\ WF_ticks(LiveSchedule)

\* The channel on the heap under the handlers that write the trunk where it is.
SInit == SStart /\ QIdle /\ TIdle /\ IIdle /\ EIdle
SpecSnapshot == SInit /\ [][SNext]_vars

\* The same engine given steps of every gate length, at tempos up to 240.
GInit == GStart /\ QIdle /\ TIdle /\ IIdle /\ HIdle
SpecGates == GInit /\ [][LNext]_vars /\ WF_ticks(LiveSchedule)

----------------------------------------------------------------------------
(* Claims about the quantizer *)

\* C4: quantizePitch is idempotent: for every scale (unquantized included) and every
\* integer pitch, negative ones included, quantizing the result of quantizePitch
\* again returns the same pitch.
QuantizeIdempotent ==
    Len(qOut) >= 2 => qOut[2] = qOut[1]

\* A negative pitch that quantizing moved was quantized twice.
QuantizeIdempotentWitness ==
    /\ Len(qOut) >= 2
    /\ qPitch < 0
    /\ qScale = "major-pentatonic"
    /\ qOut[1] # qPitch * PitchUnit

\* C5: quantizePitch commutes with octave shifts: for every scale and every integer
\* pitch p, negative ones included, quantizePitch(p + 12, s) = quantizePitch(p, s) + 12.
QuantizeOctaveInvariant ==
    (Len(qOut) >= 1 /\ qUp # <<>>) => qUp[1] = qOut[1] + 12 * PitchUnit

\* A negative pitch whose octave shift is non-negative, both quantized to a
\* pitch other than the input.
QuantizeOctaveWitness ==
    /\ Len(qOut) >= 1
    /\ qUp # <<>>
    /\ qPitch < 0
    /\ qPitch + 12 >= 0
    /\ qScale = "minor"
    /\ qOut[1] # qPitch * PitchUnit

\* The pitch q (whole semitones) has its pitch class in the table of scale s.
InScale(q, s) == \E k \in 1..Len(SCALES[s]) : SCALES[s][k] = q % 12

\* C6: for every quantizing scale and every integer pitch p the result is an in-scale
\* pitch at minimal distance from p over the in-scale pitches of every octave; when a
\* same-octave interval is among the nearest candidates, the first such interval in
\* table order is the result (so it also wins over a wrapped candidate), and
\* quantizePitch(13, 'major') = 12.
QuantizeNearestInScale ==
    (Len(qOut) >= 1 /\ qScale # "unquantized") =>
        LET intervals == SCALES[qScale]
            res == qOut[1] \div PitchUnit
            octave == qPitch \div 12
            d == Abs(res - qPitch)
            same == {k \in 1..Len(intervals) : Abs(octave * 12 + intervals[k] - qPitch) = d}
        IN  /\ qOut[1] = res * PitchUnit
            /\ InScale(res, qScale)
            /\ \A q \in (qPitch - 12)..(qPitch + 12) :
                   InScale(q, qScale) => d <= Abs(q - qPitch)
            /\ same # {} =>
                   res = octave * 12 + intervals[CHOOSE k \in same : \A j \in same : k <= j]
            /\ (qPitch = 13 /\ qScale = "major") => res = 12

\* quantizePitch(13, 'major') returned 12: note 1 is as near to interval 0 as to 2.
QuantizeNearestWitness ==
    /\ qPitch = 13
    /\ qScale = "major"
    /\ qOut = <<12 * PitchUnit>>

\* An upper-wrap candidate won: note 11 of the major pentatonic scale went to the
\* next octave's first interval.
QuantizeWrapReached ==
    /\ qPitch = -1
    /\ qScale = "major-pentatonic"
    /\ qOut = <<0>>

----------------------------------------------------------------------------
(* Claims about the transformations *)

\* C7: invertSequence is an involution on pitches: for every sequence with at least
\* one active step, inverting twice gives back the pitch of every position of the
\* active range.
InvertInvolution ==
    (tOp = "invert" /\ Len(tOut) >= 2) =>
        \A i \in 1..tSeq.length : tOut[2].steps[i].pitch = tSeq.steps[i].pitch

\* A sequence was inverted twice whose first inversion changed an active pitch and
\* whose lowest pitch lies beyond the active prefix.
InvertInvolutionWitness ==
    /\ tOp = "invert"
    /\ Len(tOut) = 2
    /\ tSeq.length < Len(tSeq.steps)
    /\ \E i \in 1..tSeq.length : tOut[1].steps[i].pitch # tSeq.steps[i].pitch
    /\ \E j \in (tSeq.length + 1)..Len(tSeq.steps) :
           \A i \in 1..tSeq.length : tSeq.steps[j].pitch < tSeq.steps[i].pitch

\* C8: reverseSequence is an involution that touches only the active prefix: for
\* 1 <= length <= steps.length, reversing twice gives back the same steps in the same
\* order, and after one or two calls every step at an index >= length is the step
\* the input has there.
ReverseInvolution ==
    (tOp = "reverse" /\ 1 <= tSeq.length /\ tSeq.length <= Len(tSeq.steps)) =>
        /\ Len(tOut) >= 2 => tOut[2].steps = tSeq.steps
        /\ \A k \in 1..Min(Len(tOut), 2) :
               /\ Len(tOut[k].steps) = Len(tSeq.steps)
               /\ tOut[k].length = tSeq.length
               /\ \A i \in (tSeq.length + 1)..Len(tSeq.steps) :
                      tOut[k].steps[i] = tSeq.steps[i]

\* A sequence with steps beyond its active prefix was reversed twice, and the first
\* reversal changed the order of the prefix.
ReverseInvolutionWitness ==
    /\ tOp = "reverse"
    /\ Len(tOut) = 2
    /\ tSeq.length >= 2
    /\ tSeq.length < Len(tSeq.steps)
    /\ tOut[1].steps # tSeq.steps
    /\ tSeq.steps[Len(tSeq.steps)] # tSeq.steps[1]


\* The lowest and the highest pitch of the active prefix steps[0..length).
PrefixMin(seq) ==
    CHOOSE p \in {seq.steps[i].pitch : i \in 1..seq.length} :
        \A i \in 1..seq.length : p <= seq.steps[i].pitch

PrefixMax(seq) ==
    CHOOSE p \in {seq.steps[i].pitch : i \in 1..seq.length} :
        \A i \in 1..seq.length : p >= seq.steps[i].pitch

\* C16: invertSequence takes min and max over the active prefix steps[0..length)
\* only: every pitch of the inverted active prefix is max - (pitch - min) with min
\* and max of the active prefix, whatever the steps beyond length hold.
InvertActivePrefix ==
    (tOp = "invert" /\ Len(tOut) >= 1) =>
        \A i \in 1..tSeq.length :
            tOut[1].steps[i].pitch
                = PrefixMax(tSeq) - (tSeq.steps[i].pitch - PrefixMin(tSeq))

----------------------------------------------------------------------------
(* Claims about the tree builder and the flattener *)

RECURSIVE NodeCount(_)
NodeCount(node) ==
    1 + (IF node.left # <<>> THEN NodeCount(node.left[1]) ELSE 0)
      + (IF node.right # <<>> THEN NodeCount(node.right[1]) ELSE 0)

\* Every node at depth < d has a left and a right child at depth + 1, every node at
\* depth d has none; node is expected at the given depth.
RECURSIVE CompleteBelow(_, _, _)
CompleteBelow(node, depth, d) ==
    /\ node.depth = depth
    /\ IF depth < d
       THEN /\ Len(node.left) = 1
            /\ Len(node.right) = 1
            /\ CompleteBelow(node.left[1], depth + 1, d)
            /\ CompleteBelow(node.right[1], depth + 1, d)
       ELSE node.left = <<>> /\ node.right = <<>>

\* C3: for every maxDepth d >= 0 the generated tree has exactly 2^(d+1) - 1 nodes,
\* every node at depth < d has both children at depth + 1, every node at depth d has
\* none, and d = 0 gives the root alone.
TreeComplete ==
    channel.generatedTree # <<>> =>
        LET tree == channel.generatedTree[1]
            d == channel.pattern.branchesCount
        IN  /\ tree.maxDepth = d
            /\ NodeCount(tree.root) = Pow2(d + 1) - 1
            /\ CompleteBelow(tree.root, 0, d)
            /\ d = 0 => (tree.root.left = <<>> /\ tree.root.right = <<>>)

\* A tree of depth 2 or more was generated.
TreeCompleteWitness ==
    /\ channel.generatedTree # <<>>
    /\ channel.pattern.branchesCount >= 2
    /\ NodeCount(channel.generatedTree[1].root) >= 7

\* C2 as stated: on a freshly generated tree the flattened sequence has length
\* (branchesCount + 1) * L for every branch order and every trunk order.
FlattenLengthAlways ==
    \A k \in 1..Len(fOut) :
        fOut[k].hadTree =>
            /\ fOut[k].result.length = (channel.pattern.branchesCount + 1)
                                        * channel.pattern.trunk.length
            /\ Len(fOut[k].result.steps) = fOut[k].result.length

\* The elements a pendulum order emits for n of them: n, and the n - 2 inner ones again.
PendulumCount(n) == IF n > 2 THEN 2 * n - 2 ELSE n

\* C2, amended: the length is (number of nodes emitted) * (steps emitted per node),
\* which is (branchesCount + 1) * L unless an order is 'pendulum'; a pendulum branch
\* order emits the inner path nodes twice and a pendulum trunk order emits the inner
\* steps of every node twice.
FlattenLength ==
    \A k \in 1..Len(fOut) :
        fOut[k].hadTree =>
            LET n == channel.pattern.branchesCount + 1
                L == channel.pattern.trunk.length
                nodes == IF channel.pattern.branchPlaybackOrder = "pendulum"
                         THEN PendulumCount(n) ELSE n
                perNode == IF channel.pattern.trunk.playbackOrder = "pendulum"
                           THEN PendulumCount(L) ELSE L
            IN  /\ fOut[k].result.length = nodes * perNode
                /\ Len(fOut[k].result.steps) = fOut[k].result.length

\* A tree of depth 2 was flattened with pendulum branch order and pendulum trunk
\* order over 3 active steps: 4 nodes of 4 steps each.
FlattenLengthWitness ==
    /\ Len(fOut) >= 1
    /\ fOut[1].hadTree
    /\ channel.pattern.branchesCount = 2
    /\ channel.pattern.trunk.length = 3
    /\ channel.pattern.branchPlaybackOrder = "pendulum"
    /\ channel.pattern.trunk.playbackOrder = "pendulum"
    /\ fOut[1].result.length = 16

\* C9: with branch order 'forward' and trunk order 'forward' two calls of
\* buildPlaybackSequence on the same channel (same tree, pathValue, branchesCount)
\* return sequences equal step for step, depth and originalIndex tags included.
FlattenDeterministic ==
    (/\ channel.pattern.branchPlaybackOrder = "forward"
     /\ channel.pattern.trunk.playbackOrder = "forward") =>
        \A j, k \in 1..Len(fOut) :
            fOut[j].hadTree = fOut[k].hadTree => fOut[j].result = fOut[k].result

\* A tree of depth >= 1 was flattened twice in forward/forward order.
FlattenDeterministicWitness ==
    /\ Len(fOut) = 2
    /\ fOut[1].hadTree
    /\ fOut[2].hadTree
    /\ channel.pattern.branchesCount >= 1
    /\ channel.pattern.trunk.length >= 2
    /\ channel.pattern.branchPlaybackOrder = "forward"
    /\ channel.pattern.trunk.playbackOrder = "forward"

\* The shuffles are random: some pair of calls in a random order differs.
FlattenRandomDiffers ==
    /\ Len(fOut) = 2
    /\ fOut[1].hadTree
    /\ fOut[2].hadTree
    /\ fOut[1].result # fOut[2].result


\* child is parent with an integer number of semitones in [-range, +range] added to
\* the pitch of every gate-on step and nothing else changed; range in pitch units.
MutatedWithin(parent, child, range) ==
    /\ Len(child.steps) = Len(parent.steps)
    /\ \A i \in 1..Len(parent.steps) :
           LET offset == child.steps[i].pitch - parent.steps[i].pitch
           IN  IF parent.steps[i].gateOn
               THEN /\ offset % PitchUnit = 0
                    /\ -range <= offset
                    /\ offset <= range
               ELSE offset = 0

\* MutatedWithin for every child below node that the builder derives with 'mutate'.
RECURSIVE MutateChildrenWithin(_, _)
MutateChildrenWithin(node, pattern) ==
    IF node.left = <<>> \/ node.right = <<>> THEN TRUE
    ELSE LET d == node.depth + 1
             config == IF d <= Len(pattern.branchConfig) THEN pattern.branchConfig[d]
                       ELSE FallbackConfig
         IN  /\ config.left = "mutate" =>
                    MutatedWithin(node.sequence, node.left[1].sequence,
                                  ParamOrDefault(config.leftParam))
             /\ config.right = "mutate" =>
                    MutatedWithin(node.sequence, node.right[1].sequence,
                                  ParamOrDefault(config.rightParam))
             /\ MutateChildrenWithin(node.left[1], pattern)
             /\ MutateChildrenWithin(node.right[1], pattern)

\* C19: in every child the builder derives with 'mutate', each gate-on pitch is the
\* parent's plus an integer offset in [-range, +range], range being the configured
\* parameter or 0.3 when the parameter is 0 or unset, each gate-off pitch is the
\* parent's; mutateSequence with range 0 returns its argument's value.
MutateOffsetsInRange ==
    channel.generatedTree # <<>> =>
        /\ MutateChildrenWithin(channel.generatedTree[1].root, channel.pattern)
        /\ \A rnd \in RandomStreams :
               mutateSequence(channel.pattern.trunk, 0, rnd, 0) = channel.pattern.trunk


\* C20: for every branchesCount k and pathValue in [0, 1] buildPlaybackSequence on a
\* complete tree of depth k computes a pathIndex in [0, 2^k - 1] (2^k - 1 for
\* pathValue 1) and collects k + 1 nodes, the node at position i having depth i, and
\* descends from depth i to i + 1 to the left child when bit i (most significant
\* first) of the k-bit pathIndex is 0 and to the right child when it is 1; a
\* forward/forward flattening plays these nodes in that order.
PathWalk ==
    channel.generatedTree # <<>> =>
        LET k == channel.pattern.branchesCount
            L == channel.pattern.trunk.length
            pathIndex == PathIndex(channel.pattern)
            nodes == PathNodes(channel)
        IN  /\ pathIndex \in 0..(Pow2(k) - 1)
            /\ channel.pattern.pathValue.num = channel.pattern.pathValue.den =>
                   pathIndex = Pow2(k) - 1
            /\ Len(nodes) = k + 1
            /\ nodes[1] = channel.generatedTree[1].root
            /\ \A i \in 0..k : nodes[i + 1].depth = i
            /\ \A i \in 0..(k - 1) :
                   LET bit == (pathIndex \div Pow2(k - 1 - i)) % 2
                   IN  nodes[i + 2] = IF bit = 0 THEN nodes[i + 1].left[1]
                                      ELSE nodes[i + 1].right[1]
            /\ \A c \in 1..Len(fOut) :
                   (/\ fOut[c].hadTree
                    /\ channel.pattern.branchPlaybackOrder = "forward"
                    /\ channel.pattern.trunk.playbackOrder = "forward") =>
                       \A j \in 1..Len(fOut[c].result.steps) :
                           LET i == (j - 1) \div L
                               idx == (j - 1) % L
                           IN  /\ fOut[c].result.steps[j].depth = i
                               /\ fOut[c].result.steps[j].pitch
                                      = nodes[i + 1].sequence.steps[idx + 1].pitch

\* A tree of depth 2 was flattened forward along path 1 of 0..3 (bits 01: left, then
\* right), its two depth-1 subtrees differing.
PathWalkWitness ==
    /\ channel.generatedTree # <<>>
    /\ channel.pattern.branchesCount = 2
    /\ PathIndex(channel.pattern) = 1
    /\ channel.pattern.branchPlaybackOrder = "forward"
    /\ channel.pattern.trunk.playbackOrder = "forward"
    /\ Len(fOut) >= 1
    /\ fOut[1].hadTree
    /\ channel.generatedTree[1].root.left[1].right # channel.generatedTree[1].root.right[1].left


\* The number of steps every node of the path contributes: its active prefix, and
\* for a pendulum trunk order the interior of the prefix once more.
BlockLen(pattern) ==
    LET L == Min(pattern.trunk.length, Len(pattern.trunk.steps))
    IN  IF pattern.trunk.playbackOrder = "pendulum" /\ L > 2 THEN 2 * L - 2 ELSE L

\* The depths of the nodes a flattened sequence was collected from, one for every
\* block of steps, in the order of the blocks.
BlockDepths(steps, pattern) ==
    [i \in 1..(Len(steps) \div BlockLen(pattern)) |->
        steps[(i - 1) * BlockLen(pattern) + 1].depth]

\* C21: the path nodes n0..nk are played in the order n0..nk for 'forward', nk..n0
\* for 'reverse', n0..nk followed by n(k-1)..n1 for 'pendulum' (neither end
\* repeated) and, for 'random', in an order where every path node occurs exactly
\* once.
BranchOrder ==
    \A c \in 1..Len(fOut) :
        fOut[c].hadTree =>
            LET runs == BlockDepths(fOut[c].result.steps, channel.pattern)
                k == Len(PathNodes(channel)) - 1
                order == channel.pattern.branchPlaybackOrder
            IN  /\ Len(fOut[c].result.steps) = Len(runs) * BlockLen(channel.pattern)
                /\ \A j \in 1..Len(fOut[c].result.steps) :
                       fOut[c].result.steps[j].depth
                           = runs[((j - 1) \div BlockLen(channel.pattern)) + 1]
                /\ order = "forward" => runs = [i \in 1..(k + 1) |-> i - 1]
                /\ order = "reverse" => runs = [i \in 1..(k + 1) |-> k + 1 - i]
                /\ order = "pendulum" =>
                       runs = [i \in 1..(k + 1) |-> i - 1] \o [i \in 1..(k - 1) |-> k - i]
                /\ order = "random" =>
                       /\ Len(runs) = k + 1
                       /\ \A d \in 0..k : \E i \in 1..Len(runs) : runs[i] = d

\* A path of three nodes has been flattened in pendulum order: n0, n1, n2, n1.
BranchOrderWitness ==
    /\ channel.pattern.branchPlaybackOrder = "pendulum"
    /\ \E c \in 1..Len(fOut) :
           /\ fOut[c].hadTree
           /\ BlockDepths(fOut[c].result.steps, channel.pattern) = <<0, 1, 2, 1>>

----------------------------------------------------------------------------
(* Claims about the step index *)

\* C10: for every length L >= 1 and counter n >= 0 getStepIndexAtTick returns n mod L
\* for 'forward', (L-1) - (n mod L) for 'backward', and for 'pendulum' pos if pos < L
\* else C - pos with C = 2L - 2 and pos = n mod C (0 when L <= 1); the result is in
\* [0, L) in every order, and length 4 in pendulum order gives 0,1,2,3,2,1,0,1 for
\* the counters 0..7.
StepIndexFormula ==
    LET L == iSeq.length
        order == iSeq.playbackOrder
    IN  /\ \A k \in 1..Len(iOut) :
               LET n == k - 1
                   C == 2 * L - 2
                   pos == IF C > 0 THEN n % C ELSE 0
               IN  /\ iOut[k] \in 0..(L - 1)
                   /\ order = "forward" => iOut[k] = n % L
                   /\ order = "backward" => iOut[k] = (L - 1) - (n % L)
                   /\ order = "pendulum" /\ L <= 1 => iOut[k] = 0
                   /\ order = "pendulum" /\ L > 1 =>
                          iOut[k] = IF pos < L THEN pos ELSE C - pos
        /\ order = "pendulum" /\ L = 4 /\ Len(iOut) >= 8 =>
               SubSeq(iOut, 1, 8) = <<0, 1, 2, 3, 2, 1, 0, 1>>

\* Length 4 in pendulum order with the counters 0..7 resolved.
StepIndexWitness ==
    /\ iSeq.length = 4
    /\ iSeq.playbackOrder = "pendulum"
    /\ Len(iOut) >= 8

----------------------------------------------------------------------------
(* Claims about the scheduler and the cached sequence *)

\* C1: between two regeneration events (calls of regenerateTree or
\* updateActiveSequence) every tick reads the same active sequence, step for step,
\* random orders included, and no tick calls the flattener while the channel has
\* its cached activeSequence.
ActiveSequenceStable ==
    /\ \A i \in 1..Len(tickReads) : tickReads[i] = tickReads[1]
    /\ \A i \in 1..Len(tickReads) : tickReads[i] = channel.activeSequence[1]
    /\ tickFlattens = 0

\* Two ticks have played since the last regeneration event while a random order is
\* in effect under which flattening again could have given another sequence.
ActiveSequenceStableWitness ==
    /\ Len(tickReads) >= 2
    /\ \/ channel.pattern.branchPlaybackOrder = "random"
       \/ channel.pattern.trunk.playbackOrder = "random"
    /\ \E rnd \in RandomStreams : buildPlaybackSequence(channel, rnd) # tickReads[1]

----------------------------------------------------------------------------
(* Claims about the transport *)

\* C11: start() is idempotent while playing: called with isPlaying true it changes
\* neither the engine state nor the transport (the tick state it never writes) and
\* registers no further callback, so after any sequence of start() and stop() calls
\* at most one repeating tick callback is registered, and one exactly while playing.
StartIdempotent ==
    /\ transport.callbacks <= 1
    /\ engine.isPlaying <=> transport.callbacks = 1
    /\ engine.isPlaying =>
           /\ start(engine, transport).engine = engine
           /\ start(engine, transport).transport = transport

\* The engine plays again after it was started, had ticked and was stopped: start()
\* has been called twice at least, and a further call finds isPlaying true.
StartIdempotentWitness ==
    /\ engine.isPlaying
    /\ ticks >= 1
    /\ channelState = InitialChannelState
    /\ transport.callbacks = 1

\* A tick that finds the tick state as stop() leaves it resolves counter 0, which is
\* index 0 of the flattened sequence, schedules that step at its own time and moves
\* nextNoteTime on from there.
FirstTickFromReset ==
    (ticks' = ticks + 1 /\ channelState = InitialChannelState) =>
        LET step == channel.activeSequence[1].steps[1]
        IN  /\ channelState'.nextNoteTime > transport.now
            /\ channelState'.currentBaseStep + channelState'.currentRatchetCount = 1
            /\ IF step.gateOn
               THEN /\ channelState'.lastTriggeredStepIndex = 0
                    /\ Len(notes') = Len(notes) + 2
                    /\ notes'[Len(notes) + 1].kind = "attack"
                    /\ notes'[Len(notes) + 1].time = transport.now
               ELSE /\ channelState'.lastTriggeredStepIndex = -1
                    /\ notes' = notes

\* C12: from every reachable state, the middle of a ratcheted step included, stop()
\* leaves currentBaseStep = 0, currentRatchetCount = 0, nextNoteTime = 0 and
\* lastTriggeredStepIndex = -1 with isPlaying = false, so the first tick after the
\* next start() resolves counter 0 and sets nextNoteTime to that tick's time.
StopResets ==
    /\ [](~engine.isPlaying => channelState = InitialChannelState)
    /\ [][FirstTickFromReset]_vars

\* stop() was called between the two ratchets of a step, and the engine was started
\* again and has ticked.
StopResetsWitness ==
    /\ engine.isPlaying
    /\ stoppedAt = 1
    /\ ticks >= 2
    /\ channelState.nextNoteTime > 0


----------------------------------------------------------------------------
(* Claims about the editing handlers *)

\* C13: every edit of the trunk steps, length, scale or playback order, of the
\* branch count, the branch configuration, the path value or the branch playback
\* order is followed, before the next tick, by a full tree rebuild and then a
\* re-flatten that replaces the cached active sequence; no edit re-flattens without
\* rebuilding the tree.
EveryEditRebuilds ==
    /\ lastEdit.reflattened
    /\ lastEdit.rebuilt
    /\ \E rnd \in RandomStreams :
           channel.generatedTree = <<generateTreeForChannel(channel, rnd)>>

\* C17: no tree node is mutated in place after the tree is built: whatever in-place
\* edit of the trunk steps a handler makes (the gate toggle and pitch of a canvas
\* click, the gates, pitches and ratchets of randomizeTrunk), every node of the tree
\* built before, the root included, holds the step values it had when it was built,
\* until regenerateTree replaces the tree.
TreeUntouchedByTrunkEdits ==
    channel.generatedTree # <<>> =>
        /\ \A closestIndex \in 0..(channel.pattern.trunk.length - 1), r \in RandomValues :
               handleCanvasClick(channel, closestIndex, r).generatedTree
                   = channel.generatedTree
        /\ \A rnd \in RandomStreams :
               randomizeTrunk(channel, rnd).generatedTree = channel.generatedTree


\* C22: every step of the flattened sequence is a copy of a step of the active prefix
\* of a node of the path, tagged with that node's depth and with the step's position
\* in the prefix; within every node's block the steps follow the trunk's
\* playbackOrder (backward gives originalIndex L-1..0), whatever the node's own
\* playbackOrder is, and the sequence declares the order 'forward', the trunk's scale
\* and the number of its steps as its length.
FlattenedSteps ==
    (channel.activeSequence # <<>> /\ channel.generatedTree # <<>>) =>
        LET seq == channel.activeSequence[1]
            pattern == channel.pattern
            B == BlockLen(pattern)
            nodes == PathNodes(channel)
            seqOrder == pattern.trunk.playbackOrder
        IN  /\ seq.playbackOrder = "forward"
            /\ seq.scale = pattern.trunk.scale
            /\ seq.length = Len(seq.steps)
            /\ Len(seq.steps) % B = 0
            /\ \A j \in 1..Len(seq.steps) :
                   LET s == seq.steps[j]
                       off == (j - 1) % B
                   IN  /\ s.depth \in 0..(Len(nodes) - 1)
                       /\ s.depth = seq.steps[j - off].depth
                       /\ LET node == nodes[s.depth + 1]
                              L == Min(node.sequence.length, Len(node.sequence.steps))
                              src == node.sequence.steps[s.originalIndex + 1]
                          IN  /\ node.depth = s.depth
                              /\ s.originalIndex \in 0..(L - 1)
                              /\ s.pitch = src.pitch
                              /\ s.gateOn = src.gateOn
                              /\ s.ratchets = src.ratchets
                              /\ s.slew = src.slew
                              /\ s.gateLength = src.gateLength
                              /\ seqOrder = "forward" => s.originalIndex = off
                              /\ seqOrder = "backward" => s.originalIndex = L - 1 - off
                              /\ seqOrder = "pendulum" =>
                                     s.originalIndex = IF off < L THEN off ELSE 2 * L - 2 - off
                              /\ seqOrder = "random" =>
                                     \A j2 \in (j - off)..(j - off + B - 1) :
                                         seq.steps[j2].originalIndex = s.originalIndex => j2 = j

\* A backward trunk has been flattened along a path whose child still declares another
\* order of its own, and the child's block runs backward.
FlattenedStepsWitness ==
    /\ channel.activeSequence # <<>>
    /\ channel.generatedTree # <<>>
    /\ channel.pattern.trunk.playbackOrder = "backward"
    /\ channel.pattern.trunk.length >= 2
    /\ Len(PathNodes(channel)) >= 2
    /\ PathNodes(channel)[2].sequence.playbackOrder = "forward"
    /\ \E j \in 1..Len(channel.activeSequence[1].steps) :
           /\ channel.activeSequence[1].steps[j].depth = 1
           /\ channel.activeSequence[1].steps[j].originalIndex
                  = channel.pattern.trunk.length - 1
           /\ (j - 1) % BlockLen(channel.pattern) = 0

----------------------------------------------------------------------------
(* Claims about the scheduler left to run *)

\* The base step has reached MaxBase, beyond the length of the sequence, and every
\* gate-on step of the active range has had its attack handed to the synth.
LiveAllFired ==
    /\ channelState.currentBaseStep >= MaxBase
    /\ channelState.currentBaseStep > LivePlayed.length
    /\ \A i \in 1..LivePlayed.length :
           LivePlayed.steps[i].gateOn =>
               \E k \in 1..Len(notes) :
                   /\ notes[k].kind = "attack"
                   /\ notes[k].note = LivePlayed.steps[i].pitch + 60 * PitchUnit

\* C15: while playing, with the ticks arriving at increasing times and a non-empty
\* sequence, every step is eventually reached: the base step grows past every bound
\* set to it, every index of the sequence is resolved and every gate-on step emits
\* its trigger, for every divMult and every ratchet count the steps carry.
StepsEventuallyFire == <>LiveAllFired

\* The base step has gone beyond the length of a sequence played at half speed with
\* ratchets, the last step triggered being a step of two ratchets.
StepsEventuallyFireWitness ==
    /\ channelState.currentBaseStep >= MaxBase
    /\ channelState.currentBaseStep > LivePlayed.length
    /\ engine.ratchetsEnabled
    /\ channel.pattern.divMult = [num |-> 1, den |-> 2]
    /\ channelState.lastTriggeredStepIndex >= 0
    /\ LivePlayed.steps[channelState.lastTriggeredStepIndex + 1].ratchets = 2


\* A step of the tick callback.
IsTick == ticks' = ticks + 1

\* The attacks a step hands to the synth.
NewNotes == SubSeq(notes', Len(notes) + 1, Len(notes'))

\* C23: a tick whose time has nextNoteTime > time + 0.1 emits no trigger and leaves
\* currentBaseStep, currentRatchetCount, nextNoteTime and lastTriggeredStepIndex as
\* they are; a tick that schedules emits at most one trigger, at the nextNoteTime it
\* found, and moves on to the next sub-trigger with a later nextNoteTime, so that no
\* sub-trigger is emitted by two ticks.
LookaheadGate ==
    [][IsTick =>
        /\ channelState.nextNoteTime > transport.now + Lookahead =>
               /\ notes' = notes
               /\ channelState' = channelState
        /\ Len(NewNotes) \in {0, 2}
        /\ Len(NewNotes) = 2 =>
               /\ NewNotes[1].kind = "attack"
               /\ NewNotes[2].kind = "release"
               /\ NewNotes[1].time = IF channelState.nextNoteTime = 0 THEN transport.now
                                     ELSE channelState.nextNoteTime
               /\ channelState'.nextNoteTime > NewNotes[1].time
               /\ \/ channelState'.currentBaseStep > channelState.currentBaseStep
                  \/ /\ channelState'.currentBaseStep = channelState.currentBaseStep
                     /\ channelState'.currentRatchetCount > channelState.currentRatchetCount
               /\ \A i \in 1..Len(notes) :
                      notes[i].kind = "attack" => notes[i].time < NewNotes[1].time
    ]_vars

\* Three ticks or more have run with ratchets off and exactly one has scheduled a
\* step, a gate-on one: the others found themselves ahead of the scheduled time.
LookaheadGateWitness ==
    /\ ticks >= 3
    /\ ~engine.ratchetsEnabled
    /\ channelState.currentBaseStep = 1
    /\ Len(notes) = 2
    /\ channelState.nextNoteTime > transport.now + Lookahead


\* The step the next scheduling tick resolves, the played order being one without
\* draws, and the ratchets it is given.
LiveStep == LivePlayed.steps[getStepIndexAtTick(LivePlayed, channelState.currentBaseStep, 0) + 1]
LiveRatchets == IF engine.ratchetsEnabled THEN LiveStep.ratchets ELSE 1
LiveStepDuration == StepDurationOf(channel.pattern, SixteenthTime(engine.bpm))

\* The nextNoteTime a scheduling tick works with.
LiveScheduleTime ==
    IF channelState.nextNoteTime = 0 THEN transport.now ELSE channelState.nextNoteTime

\* C24: with a stable active sequence, a step of r >= 1 ratchets (1 when ratchets are
\* disabled) is resolved by exactly r scheduling ticks: each moves nextNoteTime on by
\* stepDuration / r, r of them by stepDuration, the first r - 1 count up
\* currentRatchetCount, which stays within 0..r-1, and the r-th resets it and
\* increases currentBaseStep by exactly 1.
RatchetSteps ==
    [][(IsTick /\ channelState' # channelState) =>
        /\ LiveRatchets >= 1
        /\ channelState.currentRatchetCount \in 0..(LiveRatchets - 1)
        /\ channelState'.nextNoteTime = LiveScheduleTime + LiveStepDuration \div LiveRatchets
        /\ LiveRatchets * (LiveStepDuration \div LiveRatchets) = LiveStepDuration
        /\ IF channelState.currentRatchetCount + 1 < LiveRatchets
           THEN /\ channelState'.currentRatchetCount = channelState.currentRatchetCount + 1
                /\ channelState'.currentBaseStep = channelState.currentBaseStep
           ELSE /\ channelState'.currentRatchetCount = 0
                /\ channelState'.currentBaseStep = channelState.currentBaseStep + 1
    ]_vars

\* The first of the two scheduling ticks of a step of two ratchets has run, the base
\* step having moved on before.
RatchetStepsWitness ==
    /\ engine.ratchetsEnabled
    /\ channelState.currentBaseStep >= 1
    /\ channelState.currentRatchetCount = 1
    /\ LiveStep.ratchets = 2


GateTicks ==
    /\ [](channelState.lastTriggeredStepIndex >= -1)
    /\ [][(IsTick /\ channelState' # channelState) =>
           LET idx == getStepIndexAtTick(LivePlayed, channelState.currentBaseStep, 0)
           IN  /\ channelState'.nextNoteTime > LiveScheduleTime
               /\ \/ channelState'.currentBaseStep = channelState.currentBaseStep + 1
                  \/ channelState'.currentRatchetCount = channelState.currentRatchetCount + 1
               /\ ~LiveStep.gateOn =>
                      /\ notes' = notes
                      /\ channelState'.lastTriggeredStepIndex
                             = channelState.lastTriggeredStepIndex
               /\ LiveStep.gateOn =>
                      /\ Len(NewNotes) = 2
                      /\ NewNotes[1].kind = "attack"
                      /\ NewNotes[1].time = LiveScheduleTime
                      /\ channelState'.lastTriggeredStepIndex = idx
                      /\ idx \in 0..(LivePlayed.length - 1)
                      /\ LivePlayed.steps[idx + 1].gateOn
       ]_vars

\* Two steps have been scheduled, one with its gate on and one with its gate off: one
\* trigger was emitted and the index is that of the gate-on step.
GateTicksWitness ==
    /\ channelState.currentBaseStep = 2
    /\ Len(notes) = 2
    /\ channelState.lastTriggeredStepIndex \in {0, 1}
    /\ LivePlayed.steps[channelState.lastTriggeredStepIndex + 1].gateOn
    /\ \E i \in 1..2 : ~LivePlayed.steps[i].gateOn

\* C26, as stated: lastTriggeredStepIndex is always -1 or the index of a gate-on step
\* in [0, length) of the active sequence.
LastTriggeredIsGateOn ==
    \/ channelState.lastTriggeredStepIndex = -1
    \/ /\ channelState.lastTriggeredStepIndex \in 0..(LivePlayed.length - 1)
       /\ LivePlayed.steps[channelState.lastTriggeredStepIndex + 1].gateOn


\* C27: between a start and the next stop currentBaseStep never decreases, whatever
\* ticks and edits interleave: every tick resolves an index within the steps of the
\* sequence it reads, so the reset of the base counter is never taken.
BaseStepNeverReset ==
    /\ [][engine'.isPlaying =>
              channelState'.currentBaseStep >= channelState.currentBaseStep]_vars
    /\ [][IsTick =>
              \A r \in RandomValues :
                  LET idx == getStepIndexAtTick(LivePlayed, channelState.currentBaseStep, r)
                  IN  /\ LivePlayed.length > 0
                      /\ idx >= 0
                      /\ idx < Len(LivePlayed.steps)
                      /\ idx < LivePlayed.length]_vars

\* A tick found the base step at 1 and the sequence an edit had just cut to one step:
\* it played step 0 and moved the base step on to 2.
BaseStepNeverResetWitness ==
    /\ engine.isPlaying
    /\ ticks = 2
    /\ channelState.currentBaseStep = 2
    /\ Len(tickReads) = 1
    /\ tickReads[1].length = 1


\* C28: the scheduler keeps up with the clock: every trigger is emitted with a
\* schedule time that is not earlier than the time of the tick that emits it.
TriggersNotInThePast ==
    [][(IsTick /\ NewNotes # <<>>) =>
           \A i \in 1..Len(NewNotes) :
               NewNotes[i].kind = "attack" => NewNotes[i].time >= transport.now]_vars


\* The ratchet duration of the sub-trigger a tick is about to schedule.
LiveRatchetDuration == RatchetDurationOf(LiveStepDuration, LiveRatchets)

\* The gate duration of the trigger a tick has emitted.
NewGate == NewNotes[2].time - NewNotes[1].time

\* C29, as it holds: the gate of a 'tied' step lasts the ratchet duration of its
\* sub-trigger and the gate of a percentage step lasts that percentage of it, so
\* neither outlasts the sub-trigger; the gate of a 'trigger' step lasts 0.006 s
\* whatever the ratchet duration is, and outlasts the sub-trigger exactly when the
\* ratchet duration is shorter than 0.006 s.
GateWithinRatchet ==
    [][(IsTick /\ NewNotes # <<>>) =>
           /\ LiveStep.gateLength = "tied" => NewGate = LiveRatchetDuration
           /\ LiveStep.gateLength \notin {"tied", "trigger"} =>
                  /\ NewGate = (LiveRatchetDuration * GatePercent(LiveStep.gateLength))
                                   \div 100
                  /\ NewGate <= LiveRatchetDuration
           /\ LiveStep.gateLength = "trigger" =>
                  /\ NewGate = TriggerDuration
                  /\ (NewGate <= LiveRatchetDuration)
                         <=> (LiveRatchetDuration >= TriggerDuration)
       ]_vars

\* Two sub-triggers overlap: a 'trigger' gate of 0.006 s whose release comes after the
\* attack of the next sub-trigger, and a 'tied' gate scheduled too.
GateWithinRatchetWitness ==
    /\ \E i \in 1..Len(notes) :
           /\ i + 2 <= Len(notes)
           /\ notes[i].kind = "attack"
           /\ notes[i + 1].kind = "release"
           /\ notes[i + 1].time - notes[i].time = TriggerDuration
           /\ notes[i + 2].kind = "attack"
           /\ notes[i + 2].time < notes[i + 1].time
    /\ \E i \in 1..Len(notes) :
           /\ i + 2 <= Len(notes)
           /\ notes[i].kind = "attack"
           /\ notes[i + 1].kind = "release"
           /\ notes[i + 2].kind = "attack"
           /\ notes[i + 2].time = notes[i + 1].time

\* C29, as stated: the gate duration of every emitted trigger is at most the ratchet
\* duration of its sub-trigger, for every kind of gate length.
GateNeverOutlastsRatchet ==
    [][(IsTick /\ NewNotes # <<>>) => NewGate <= LiveRatchetDuration]_vars

----------------------------------------------------------------------------
(* Claims about the heap *)

\* The sequences of the tree, a node before its children.
RECURSIVE NodeSequences(_)
NodeSequences(node) ==
    <<node.sequence>>
    \o (IF node.left = <<>> THEN <<>> ELSE NodeSequences(node.left[1]))
    \o (IF node.right = <<>> THEN <<>> ELSE NodeSequences(node.right[1]))

\* C18: transposeSequence, invertSequence, reverseSequence and mutateSequence never
\* change their argument: after any of them, and after generateTreeForChannel for
\* every recipe and depth, the trunk and every sequence made before (every parent
\* node's among them) have the steps, in the order, they had when they were made; the
\* tree on the heap is, as values, the tree generateTreeForChannel computes.
TransformsKeepArgument ==
    /\ \A k \in 1..Len(hMade) : Deref(heap, hMade[k].seq) = hMade[k].value
    /\ hTree # <<>> =>
        /\ \A i \in 1..Len(NodeSequences(hTree[1].root)) :
               \E k \in 1..Len(hMade) : hMade[k].seq = NodeSequences(hTree[1].root)[i]
        /\ \E rnd \in RandomStreams :
               [root |-> DerefNode(heap, hTree[1].root), maxDepth |-> hTree[1].maxDepth]
                   = generateTreeForChannel(
                         MakeChannel([hPattern EXCEPT !.trunk = hMade[1].value]), rnd)

\* A tree of two levels has been built with a reversing and a mutating branch, and a
\* child's steps differ from the trunk's.
TransformsKeepArgumentWitness ==
    /\ hTree # <<>>
    /\ hTree[1].maxDepth = 2
    /\ Len(hMade) >= 7
    /\ hPattern.branchConfig # <<>>
    /\ hPattern.branchConfig[1].left = "reverse"
    /\ hPattern.branchConfig[1].right = "mutate"
    /\ \E k \in 2..Len(hMade) : hMade[k].value.steps # hMade[1].value.steps


\* The values an edit in place can give a step.
StepWrites == {[gateOn |-> g, pitch |-> p, ratchets |-> n] :
                   g \in BOOLEAN, p \in {-12 * PitchUnit, 0, 12 * PitchUnit}, n \in {1, 2}}

\* C30: with a tree generated, the cached active sequence is a snapshot: it is the
\* whole result of the last flatten call, every sequence a tick has read is the whole
\* result of one flatten call, and a write in place of a trunk step (gate, pitch,
\* ratchets), of the trunk length or of the trunk scale leaves every step, the length
\* and the scale of the cached sequence as they are; the cached sequence changes only
\* when a handler assigns the result of a new flatten call.
CachedIsSnapshot ==
    /\ [](/\ channel.generatedTree # <<>>
          /\ channel.activeSequence # <<>>
          /\ ActiveOnHeap(heap, channel) = fOut[Len(fOut)].result
          /\ \A i \in 1..Len(tickReads) :
                 \E k \in 1..Len(fOut) : tickReads[i] = fOut[k].result
          /\ \A i \in 1..Len(StepIds(heap, channel.pattern.trunk)), w \in StepWrites :
                 ActiveOnHeap(WriteStepOnHeap(heap, channel, i,
                                              w.gateOn, w.pitch, w.ratchets), channel)
                     = ActiveOnHeap(heap, channel)
          /\ \A len \in 1..HCap, scale \in ScaleChoices :
                 ActiveOnHeap(heap, WriteTrunk(channel, [channel.pattern.trunk EXCEPT
                                                            !.length = len,
                                                            !.scale = scale]))
                     = ActiveOnHeap(heap, channel))
    /\ [][ActiveOnHeap(heap', channel') # ActiveOnHeap(heap, channel) =>
              /\ Len(fOut') = Len(fOut) + 1
              /\ ActiveOnHeap(heap', channel') = fOut'[Len(fOut')].result]_vars

\* A tick read the first flatten result, a handler wrote the trunk in place and
\* cached another result, a second tick read that one; the step objects of the first
\* result still hold what the first tick read.
CachedIsSnapshotWitness ==
    /\ Len(fOut) = 2
    /\ Len(tickReads) = 2
    /\ tickReads[1] = fOut[1].result
    /\ tickReads[2] = fOut[2].result
    /\ fOut[1].result.steps # fOut[2].result.steps
    /\ channel.pattern.branchesCount >= 1

====
